---- MODULE Spec2Model ----
(***************************************************************************)
(* ApplyBee: the score-request state machine shared by the background      *)
(* service worker (background.js) and the popup (popup.js).                *)
(*                                                                         *)
(* Every handler is cut at its awaits: one action runs the synchronous     *)
(* code up to the next await, and a storage call takes effect in the       *)
(* action that issues it (storage calls are served in issue order).        *)
(* Time is the value of Date.now() in milliseconds.                        *)
(* The page agent's handlers and autofillFields (utils/autofill.js) are    *)
(* modelled beside it; a string there is the sequence of its characters.   *)
(***************************************************************************)
EXTENDS Integers, Sequences, FiniteSets, TLC

\* ------------------------------------------------------------ constants
REQUEST_TIMEOUT == 120000
POPUP_REQUEST_TIMEOUT == 120000
POLLING_INTERVAL == 2000

\* ------------------------------------------------------------ bounds
MaxLeft == 1         \* request ids of an earlier run of the background
MaxReq == 1          \* score requests submitted in one run
MaxTime == 124000    \* the clock stops here
MaxPolls == 2        \* CHECK_REQUEST_STATUS conversations in flight
MaxCancels == 1      \* CANCEL_REQUEST conversations in flight
LongStep == 59000    \* the clock's step when no timer is due sooner
MaxFields == 2      \* field descriptors passed to autofillFields
MaxControls == 3    \* controls of a form page
MaxCalls == 2       \* calls of extractFields on one document
MaxChanges == 1     \* changes the page makes to the document
MaxItems == 2       \* labelled controls of a page whose elements are resolved
MaxFinds == 2       \* calls of findElementForField on one document

LeftIds == 1..MaxLeft

\* The instants at which the user, the host and the backend act: at once,
\* one poll later, after one and two long steps, at the timeout and one poll
\* after it.  Timers and callbacks run at every instant.
EnvTimes == {0, POLLING_INTERVAL, LongStep, 2 * LongStep, REQUEST_TIMEOUT,
             REQUEST_TIMEOUT + POLLING_INTERVAL}
ReqIds == 1..(MaxLeft + MaxReq)

VARIABLES
  now,               \* Date.now()
  store,             \* chrome.storage.local, the keys request_<id>
  pendingRequests,   \* background: the in-memory Map (its key set)
  keepAliveInterval, \* background: TRUE while the keep-alive interval is set
  req,               \* background: one handleResumeScoreRequest run per id
  gist,              \* background: the BG_GENERATE_GISTS handler's run
  other,             \* chrome.storage.local, the keys other than request_<id>
  sweep,             \* background: the onStartup handler's run
  nextId,            \* number of request ids issued so far
  checks,            \* CHECK_REQUEST_STATUS conversations (handler + reply)
  cancels,           \* CANCEL_REQUEST conversations (handler + reply)
  pushes,            \* SCORE_RESULT messages on their way to the popup
  popupOpen,         \* a popup document exists
  currentRequestId,  \* popup: 0 is null
  pollingInterval,   \* popup: due time of the interval held, 0 is null
  strayTimers,       \* popup: due times of intervals no variable holds
  pollingStartTime,  \* popup: 0 is null
  ui,                \* popup: the status element shows the loading view, or a message
  clickPrep,         \* popup: score clicks awaiting storage and tabs
  submitReplies,     \* BG_RESUME_SCORE replies on their way to the popup
  act,               \* popup: the checkPendingRequest run of this activation
  shown,             \* history: terminal outcomes displayed, per id
  results,           \* history: scores and errors displayed, per id
  writes,            \* history: <<status, data or error>> written to request_<id>, in order
  termAnswers,       \* history: number of polls answered complete or error, per id
  bgCancelled,       \* history: ids whose CANCEL_REQUEST the background handled
  popupCancelled,    \* history: ids the popup cancelled
  outcome,           \* history: how the backend call of each id ended, and the body read
  runs,              \* message handlers: position, replies sent, channel kept open
  fill,              \* page agent: the autofillFields call
  sel,               \* page agent: one setValue call on a select control
  scan               \* page agent: the document and the extractFields calls on it

bgVars == <<store, other, pendingRequests, keepAliveInterval, req, gist, sweep, nextId, checks, cancels, pushes>>
popupVars == <<popupOpen, currentRequestId, pollingInterval, strayTimers,
               pollingStartTime, ui, clickPrep, submitReplies, act>>
histVars == <<shown, results, writes, termAnswers, bgCancelled, popupCancelled,
             outcome>>
pageVars == <<runs, fill, sel, scan>>
vars == <<now, bgVars, popupVars, histVars, pageVars>>

\* ------------------------------------------------------------ storage
NoRec == [status |-> "none", startTime |-> 0, payload |-> ""]
Rec(status, startTime, payload) ==
  [status |-> status, startTime |-> startTime, payload |-> payload]

\* saveRequestState: chrome.storage.local.set({request_<id>: state})
saveRequestState(s, id, state) == [s EXCEPT ![id] = state]

\* getRequestState: result[key] || null
getRequestState(s, id) == s[id]

\* clearRequestState: chrome.storage.local.remove(request_<id>)
clearRequestState(s, id) == [s EXCEPT ![id] = NoRec]

\* a || b on strings
JsOr(a, b) == IF a # "" THEN a ELSE b

\* ------------------------------------------------------------ keep-alive
\* startKeepAlive: sets the interval unless one is set
startKeepAlive(k) == TRUE

\* As stopKeepAlive, but the interval is not cleared.
stopKeepAliveNoClear(k) == k

\* stopKeepAlive: clears the interval if one is set
stopKeepAlive(k) == FALSE

\* ------------------------------------------------------------ fetch
\* What the backend can send: res.ok and the body read from it.
Responses == { [ok |-> TRUE, data |-> "score"],
               [ok |-> FALSE, data |-> "detail"],
               [ok |-> FALSE, data |-> ""] }

NoRes == [ok |-> FALSE, data |-> "", error |-> ""]

\* fetchWithTimeout's three returns
FetchRead(r) == [ok |-> r.ok, data |-> r.data, error |-> ""]
FetchAborted == [ok |-> FALSE, data |-> "", error |-> "timed out"]
FetchFailed == [ok |-> FALSE, data |-> "", error |-> "fetch failed"]

IdleReq == [pc |-> "idle", deadline |-> 0, res |-> NoRes]

\* The storage keys that are no request records; 0 is an absent key.
OtherKeys == {"parsed_resume", "resume_file", "last_score_result",
              "last_score_jd_url", "keep_alive_ping"}

\* keys is the list the onStartup handler filtered from what it read; had is
\* history: the request records storage held when it read
IdleSweep == [pc |-> "idle", keys |-> {}, had |-> {}]

\* reply is the data of the handler's last sendResponse
IdleGist == [pc |-> "idle", deadline |-> 0, reply |-> ""]

\* As TerminalState, but deciding on the presence of data instead of res.ok.
TerminalStateByData(res) ==
  IF res.data = ""
    THEN Rec("error", 0, JsOr(JsOr(res.data, res.error), "Unknown error"))
    ELSE Rec("complete", 0, res.data)

\* The state handleResumeScoreRequest writes for a fetchWithTimeout result
TerminalState(res) ==
  IF ~res.ok
    THEN Rec("error", 0, JsOr(JsOr(res.data, res.error), "Unknown error"))
    ELSE Rec("complete", 0, res.data)

\* The value handleResumeScoreRequest returns, pushed as SCORE_RESULT.result
ReturnValue(res) ==
  IF ~res.ok
    THEN [ok |-> FALSE, data |-> JsOr(res.data, res.error)]
    ELSE [ok |-> TRUE, data |-> res.data]

Append1(f, id, x) == [f EXCEPT ![id] = Append(@, x)]

Bump(f, id) == [f EXCEPT ![id] = @ + 1]

\* ------------------------------------------------------------ replies
\* The messages whose handlers start asynchronous work.
Handlers == {"BG_GENERATE_GISTS", "BG_RESUME_SCORE", "CHECK_REQUEST_STATUS",
             "CANCEL_REQUEST", "RESUME_SCORE", "AUTOFILL"}

\* One run of a handler: where it stands, the sendResponse calls it made,
\* whether the listener returned true, and the path it took.
IdleRun == [pc |-> "idle", replies |-> 0, open |-> FALSE, path |-> ""]

\* The listener's synchronous part for a handler that awaits before replying.
Started(pc) == [pc |-> pc, replies |-> 0, open |-> TRUE, path |-> ""]

\* sendResponse(...) followed by the end of the handler on path p.
sendResponse(r, p) == [r EXCEPT !.pc = "done", !.replies = @ + 1, !.path = p]

\* ------------------------------------------------------------ strings
\* A string is the sequence of its characters; "" is <<>>, which also stands
\* for null and undefined (all three are falsy and print as nothing here,
\* except in a template literal, see NameSelector).
UpperChars == <<"A", "B", "C", "D", "E", "F", "G", "H", "I", "J", "K", "L", "M",
                "N", "O", "P", "Q", "R", "S", "T", "U", "V", "W", "X", "Y", "Z">>
LowerChars == <<"a", "b", "c", "d", "e", "f", "g", "h", "i", "j", "k", "l", "m",
                "n", "o", "p", "q", "r", "s", "t", "u", "v", "w", "x", "y", "z">>
DigitChars == <<"0", "1", "2", "3", "4", "5", "6", "7", "8", "9">>

Range(q) == {q[i] : i \in 1..Len(q)}
IndexOf(q, c) == CHOOSE i \in 1..Len(q) : q[i] = c

IsDigit(c) == c \in Range(DigitChars)
DigitValue(c) == IndexOf(DigitChars, c) - 1
\* \w
IsWordChar(c) == c \in Range(UpperChars) \cup Range(LowerChars) \cup Range(DigitChars) \cup {"_"}
\* \s
IsSpace(c) == c \in {" ", "\t", "\n"}

\* String.prototype.toLowerCase
toLowerCase(s) ==
  [i \in 1..Len(s) |-> IF s[i] \in Range(UpperChars)
                         THEN LowerChars[IndexOf(UpperChars, s[i])] ELSE s[i]]

\* String.prototype.includes
includes(s, t) == \E i \in 1..(Len(s) - Len(t) + 1) : SubSeq(s, i, i + Len(t) - 1) = t

\* String.prototype.trim
RECURSIVE trimStart(_)
trimStart(s) == IF s # <<>> /\ IsSpace(Head(s)) THEN trimStart(Tail(s)) ELSE s
RECURSIVE trimEnd(_)
trimEnd(s) == IF s # <<>> /\ IsSpace(s[Len(s)]) THEN trimEnd(SubSeq(s, 1, Len(s) - 1)) ELSE s
trim(s) == trimEnd(trimStart(s))

\* s.split(/\s+/)
RECURSIVE split(_)
split(s) ==
  IF \A i \in 1..Len(s) : ~IsSpace(s[i]) THEN <<s>>
  ELSE LET i == CHOOSE k \in 1..Len(s) : IsSpace(s[k]) /\ \A j \in 1..(k - 1) : ~IsSpace(s[j])
       IN <<SubSeq(s, 1, i - 1)>> \o split(trimStart(SubSeq(s, i, Len(s))))

\* The length of the longest run of characters of the class C that starts at
\* position i of s.
RECURSIVE RunLength(_, _, _)
RunLength(s, i, C) ==
  IF i <= Len(s) /\ s[i] \in C THEN 1 + RunLength(s, i + 1, C) ELSE 0

\* parseInt of a string of digits
RECURSIVE parseInt(_)
parseInt(s) ==
  IF s = <<>> THEN 0 ELSE 10 * parseInt(SubSeq(s, 1, Len(s) - 1)) + DigitValue(s[Len(s)])

\* parseFloat, NaN being -1: leading white space is skipped and the leading
\* digits are read (the strings here carry no sign, fraction or exponent).
NaN == -1
parseFloat(s) ==
  LET t == trimStart(s)
      n == RunLength(t, 1, Range(DigitChars))
  IN IF n = 0 THEN NaN ELSE parseInt(SubSeq(t, 1, n))

\* s.match(/\d+/g) with each match parsed: the digit runs of s, in order
\* (<<>> stands for null).
RECURSIVE DigitRuns(_)
DigitRuns(s) ==
  IF \A i \in 1..Len(s) : ~IsDigit(s[i]) THEN <<>>
  ELSE LET i == CHOOSE k \in 1..Len(s) : IsDigit(s[k]) /\ \A j \in 1..(k - 1) : ~IsDigit(s[j])
           n == RunLength(s, i, Range(DigitChars))
       IN <<parseInt(SubSeq(s, i, i + n - 1))>> \o DigitRuns(SubSeq(s, i + n, Len(s)))

\* Number to string, for a non-negative integer.
RECURSIVE NumberString(_)
NumberString(n) ==
  IF n < 10 THEN <<DigitChars[n + 1]>>
  ELSE NumberString(n \div 10) \o <<DigitChars[(n % 10) + 1]>>

\* new RegExp(`\\b${w}\\b`).test(s), for w made of word characters
WordTest(s, w) ==
  \E i \in 1..(Len(s) - Len(w) + 1) :
    /\ SubSeq(s, i, i + Len(w) - 1) = w
    /\ i = 1 \/ ~IsWordChar(s[i - 1])
    /\ i + Len(w) > Len(s) \/ ~IsWordChar(s[i + Len(w)])

\* The first element of q that is not 0, or 0.
RECURSIVE FirstNonZero(_)
FirstNonZero(q) ==
  IF q = <<>> THEN 0 ELSE IF Head(q) # 0 THEN Head(q) ELSE FirstNonZero(Tail(q))

WordChars == Range(UpperChars) \cup Range(LowerChars) \cup Range(DigitChars) \cup {"_"}
\* [\w\.-]
EmailChars == WordChars \cup {".", "-"}

\* The end of the match of /[\w\.-]+@[\w\.-]+\.\w+/ that starts at position
\* i of s, or 0: the greedy groups give back only what the pattern needs.
EmailEndAt(s, i) ==
  LET a == i + RunLength(s, i, EmailChars)
      n == RunLength(s, a + 1, EmailChars)
      dots == {d \in (a + 2)..(a + n) :
                 s[d] = "." /\ d + 1 <= Len(s) /\ s[d + 1] \in WordChars}
  IN IF a > i /\ a <= Len(s) /\ s[a] = "@" /\ dots # {}
       THEN LET d == CHOOSE x \in dots : \A y \in dots : y <= x
            IN d + RunLength(s, d + 1, WordChars)
       ELSE 0

\* The end of \d{6,12} at position q of s, or 0.
DigitsEndAt(s, q) ==
  LET n == RunLength(s, q, Range(DigitChars))
  IN IF n < 6 THEN 0 ELSE q - 1 + (IF n > 12 THEN 12 ELSE n)

\* The end of the match of /(\+?\d{1,3}[\s-]?)?(\d{6,12})/ that starts at
\* position i of s, or 0: the optional prefix is tried with three, two and
\* one digit, each with and without the separator, then left out.
PhoneEndAt(s, i) ==
  LET p == IF i <= Len(s) /\ s[i] = "+" THEN i + 1 ELSE i
      n == RunLength(s, p, Range(DigitChars))
      With(k) ==
        IF n < k THEN 0
        ELSE LET q == p + k
             IN FirstNonZero(<<IF q <= Len(s) /\ (IsSpace(s[q]) \/ s[q] = "-")
                                 THEN DigitsEndAt(s, q + 1) ELSE 0,
                               DigitsEndAt(s, q)>>)
  IN FirstNonZero(<<With(3), With(2), With(1), DigitsEndAt(s, i)>>)

\* The least element of a set of positions, or 0 (the leftmost match, the
\* first element in document order).
First(S) == IF S = {} THEN 0 ELSE CHOOSE i \in S : \A j \in S : i <= j

\* s.match(/[\w\.-]+@[\w\.-]+\.\w+/): the leftmost match, em[0]; <<>>
\* stands for null.
EmailMatch(s) ==
  LET i == First({x \in 1..Len(s) : EmailEndAt(s, x) # 0})
  IN IF i = 0 THEN <<>> ELSE SubSeq(s, i, EmailEndAt(s, i))

\* s.match(/(\+?\d{1,3}[\s-]?)?(\d{6,12})/): the leftmost match, ph[0].
PhoneMatch(s) ==
  LET i == First({x \in 1..Len(s) : PhoneEndAt(s, x) # 0})
  IN IF i = 0 THEN <<>> ELSE SubSeq(s, i, PhoneEndAt(s, i))

\* ------------------------------------------------------------ document
\* A value put into a template literal or passed where a string is expected:
\* null prints as "null".
TemplateString(x) == IF x = <<>> THEN <<"n", "u", "l", "l">> ELSE x

\* What a DOM call gives instead of an element when it raises.
SyntaxError == -1

\* document.getElementById(id)
getElementById(doc, id) == First({x \in 1..Len(doc) :
                 LET e == doc[x] IN e.id # <<>> /\ e.id = id})

\* document.querySelector(`[name="${name}"]`): a double quote in the name
\* ends the selector's string early and the selector does not parse.
querySelectorByName(doc, name) ==
  IF "\"" \in Range(name) THEN SyntaxError
  ELSE First({x \in 1..Len(doc) :
                 LET e == doc[x] IN e.name # <<>> /\ e.name = name})

\* The controls: querySelectorAll('input,textarea,select')
IsControl(e) == e.tag \in {"input", "textarea", "select"}

\* As findElementForField, but in the ranking the candidate seen last wins
\* a tie.
findElementForFieldLastTie(doc, labels, fieldObj) ==
  LET label == toLowerCase(fieldObj.label_text)
      byId == IF fieldObj.id # <<>> THEN getElementById(doc, fieldObj.id) ELSE 0
      byName == IF fieldObj.name # <<>> THEN querySelectorByName(doc, fieldObj.name) ELSE 0
      byPlaceholder ==
        IF fieldObj.placeholder # <<>>
          THEN First({x \in 1..Len(doc) :
                 LET e == doc[x] IN
                 IsControl(e) /\ includes(toLowerCase(e.placeholder),
                                          toLowerCase(fieldObj.placeholder))})
          ELSE 0
      LabelControl(lab) ==
        IF includes(toLowerCase(lab.innerText), label)
          THEN LET el == IF lab.for # <<>> THEN getElementById(doc, lab.for) ELSE 0
               IN IF el # 0 THEN el ELSE lab.inside
          ELSE 0
      byLabel == FirstNonZero([i \in 1..Len(labels) |-> LabelControl(labels[i])])
      words == split(label)
      tokens == SubSeq(words, 1, IF Len(words) < 4 THEN Len(words) ELSE 4)
      Text(i) == toLowerCase(i.id \o <<" ">> \o i.name \o <<" ">> \o i.placeholder
                             \o <<" ">> \o i.aria)
      Score(i) == Cardinality({k \in 1..Len(tokens) :
                                 tokens[k] # <<>> /\ includes(Text(i), tokens[k])})
      allInputs == {i \in 1..Len(doc) : IsControl(doc[i]) /\ doc[i].visible}
      best == IF allInputs = {} THEN 0
              ELSE CHOOSE i \in allInputs :
                     \A j \in allInputs :
                       Score(doc[j]) < Score(doc[i])
                         \/ (Score(doc[j]) = Score(doc[i]) /\ j <= i)
  IN IF byId # 0 THEN byId
     ELSE IF byName # 0 THEN byName
     ELSE IF byPlaceholder # 0 THEN byPlaceholder
     ELSE IF byLabel # 0 THEN byLabel
     ELSE IF best # 0 /\ Score(doc[best]) > 0 THEN best
     ELSE 0

\* findElementForField(fieldObj): the index of the element in the document,
\* 0 for null, SyntaxError when the name selector raises.
findElementForField(doc, labels, fieldObj) ==
  LET label == toLowerCase(fieldObj.label_text)
      byId == IF fieldObj.id # <<>> THEN getElementById(doc, fieldObj.id) ELSE 0
      byName == IF fieldObj.name # <<>> THEN querySelectorByName(doc, fieldObj.name) ELSE 0
      byPlaceholder ==
        IF fieldObj.placeholder # <<>>
          THEN First({x \in 1..Len(doc) :
                 LET e == doc[x] IN
                 IsControl(e) /\ includes(toLowerCase(e.placeholder),
                                          toLowerCase(fieldObj.placeholder))})
          ELSE 0
      LabelControl(lab) ==
        IF includes(toLowerCase(lab.innerText), label)
          THEN LET el == IF lab.for # <<>> THEN getElementById(doc, lab.for) ELSE 0
               IN IF el # 0 THEN el ELSE lab.inside
          ELSE 0
      byLabel == FirstNonZero([i \in 1..Len(labels) |-> LabelControl(labels[i])])
      words == split(label)
      tokens == SubSeq(words, 1, IF Len(words) < 4 THEN Len(words) ELSE 4)
      Text(i) == toLowerCase(i.id \o <<" ">> \o i.name \o <<" ">> \o i.placeholder
                             \o <<" ">> \o i.aria)
      Score(i) == Cardinality({k \in 1..Len(tokens) :
                                 tokens[k] # <<>> /\ includes(Text(i), tokens[k])})
      allInputs == {i \in 1..Len(doc) : IsControl(doc[i]) /\ doc[i].visible}
      best == IF allInputs = {} THEN 0
              ELSE CHOOSE i \in allInputs :
                     \A j \in allInputs :
                       Score(doc[j]) < Score(doc[i])
                         \/ (Score(doc[j]) = Score(doc[i]) /\ i <= j)
  IN IF byId # 0 THEN byId
     ELSE IF byName # 0 THEN byName
     ELSE IF byPlaceholder # 0 THEN byPlaceholder
     ELSE IF byLabel # 0 THEN byLabel
     ELSE IF best # 0 /\ Score(doc[best]) > 0 THEN best
     ELSE 0

\* ---- setValue
\* atob(data) succeeds: base64 characters only, and a possible length.
Base64Chars == (WordChars \ {"_"}) \cup {"+", "/", "="}
ValidBase64(data) == Range(data) \subseteq Base64Chars /\ Len(data) % 4 # 1

\* As SelectOption, but an option is accepted only when its text or its
\* value equals the answer.
SelectOptionEqualityOnly(options, val) ==
  LET valLower == trim(toLowerCase(val))
  IN First({x \in 1..Len(options) :
             \/ trim(toLowerCase(options[x].text)) = valLower
             \/ trim(toLowerCase(options[x].value)) = valLower})

\* As SelectOption, but the numeric-range strategy is consulted before the
\* exact/containment strategy.
SelectOptionRangeFirst(options, val) ==
  LET valLower == trim(toLowerCase(val))
      valNum == parseFloat(valLower)
      exact == First({x \in 1..Len(options) :
                 LET o == options[x] IN
                 LET optText == trim(toLowerCase(o.text))
                     optValue == trim(toLowerCase(o.value))
                 IN optText = valLower \/ optValue = valLower
                      \/ includes(optText, valLower) \/ includes(valLower, optText)})
      range == First({x \in 1..Len(options) :
                 LET o == options[x] IN
                 LET optText == toLowerCase(o.text)
                     nums == DigitRuns(optText)
                 IN IF Len(nums) = 2 THEN valNum >= nums[1] /\ valNum <= nums[2]
                    ELSE IF Len(nums) = 1
                      THEN valNum - nums[1] <= 2 /\ nums[1] - valNum <= 2
                    ELSE WordTest(optText, NumberString(valNum))})
      valWords == SelectSeq(split(valLower), LAMBDA w : Len(w) > 2)
      words == First({x \in 1..Len(options) :
                 LET o == options[x] IN
                 LET optText == toLowerCase(o.text)
                 IN (\A w \in Range(valWords) : includes(optText, w))
                      \/ (\E w \in Range(split(optText)) : w \in Range(valWords))})
  IN IF valNum # NaN /\ valNum > 0 /\ range # 0 THEN range
     ELSE IF exact # 0 THEN exact
     ELSE IF Len(split(valLower)) > 1 /\ words # 0 THEN words
     ELSE exact

\* The select branch of setValue: the index of the option chosen by the four
\* strategies in their order, or 0.
SelectOption(options, val) ==
  LET valLower == trim(toLowerCase(val))
      valNum == parseFloat(valLower)
      exact == First({x \in 1..Len(options) :
                 LET o == options[x] IN
                 LET optText == trim(toLowerCase(o.text))
                     optValue == trim(toLowerCase(o.value))
                 IN optText = valLower \/ optValue = valLower
                      \/ includes(optText, valLower) \/ includes(valLower, optText)})
      range == First({x \in 1..Len(options) :
                 LET o == options[x] IN
                 LET optText == toLowerCase(o.text)
                     nums == DigitRuns(optText)
                 IN IF Len(nums) = 2 THEN valNum >= nums[1] /\ valNum <= nums[2]
                    ELSE IF Len(nums) = 1
                      THEN valNum - nums[1] <= 2 /\ nums[1] - valNum <= 2
                    ELSE WordTest(optText, NumberString(valNum))})
      valWords == SelectSeq(split(valLower), LAMBDA w : Len(w) > 2)
      words == First({x \in 1..Len(options) :
                 LET o == options[x] IN
                 LET optText == toLowerCase(o.text)
                 IN (\A w \in Range(valWords) : includes(optText, w))
                      \/ (\E w \in Range(split(optText)) : w \in Range(valWords))})
      partial == First({x \in 1..Len(options) :
                 LET o == options[x] IN
                   LET optText == toLowerCase(o.text)
                   IN includes(optText, valLower) \/ includes(valLower, optText)})
  IN IF exact # 0 THEN exact
     ELSE IF valNum # NaN /\ valNum > 0 /\ range # 0 THEN range
     ELSE IF Len(split(valLower)) > 1 /\ words # 0 THEN words
     ELSE partial

\* As setValue, but a file control without a payload is left alone: the
\* picker is not opened.
setValueNoPicker(el, val, resumeFile) ==
  IF el.type = "file"
    THEN IF resumeFile.given /\ resumeFile.data # <<>> /\ ValidBase64(resumeFile.data)
           THEN [ok |-> TRUE, does |-> "files", value |-> <<>>]
           ELSE [ok |-> FALSE, does |-> "nothing", value |-> <<>>]
  ELSE IF el.tag = "select"
    THEN LET opt == SelectOption(el.options, val)
         IN IF opt # 0
              THEN [ok |-> TRUE, does |-> "value", value |-> el.options[opt].value]
              ELSE [ok |-> FALSE, does |-> "nothing", value |-> <<>>]
  ELSE [ok |-> TRUE, does |-> "value", value |-> val]

\* setValue(el, val, resumeFile) for an element el: what it returns and what
\* it does to el (attach the file, open the picker, assign a value).
setValue(el, val, resumeFile) ==
  IF el.type = "file"
    THEN IF resumeFile.given /\ resumeFile.data # <<>>
           THEN IF ValidBase64(resumeFile.data)
                  THEN [ok |-> TRUE, does |-> "files", value |-> <<>>]
                  ELSE [ok |-> FALSE, does |-> "click", value |-> <<>>]
           ELSE [ok |-> FALSE, does |-> "click", value |-> <<>>]
  ELSE IF el.tag = "select"
    THEN LET opt == SelectOption(el.options, val)
         IN IF opt # 0
              THEN [ok |-> TRUE, does |-> "value", value |-> el.options[opt].value]
              ELSE [ok |-> FALSE, does |-> "nothing", value |-> <<>>]
  ELSE [ok |-> TRUE, does |-> "value", value |-> val]

\* ------------------------------------------------------------ a select control
\* Option lists of select controls.  An option without a value attribute has
\* its text as its value.
\* "0-2 years", "3-5 years", "5-7 years", "7+ years"
YearsOptions ==
  << [text |-> <<"0", "-", "2", " ", "y", "e", "a", "r", "s">>, value |-> <<"0", "-", "2", " ", "y", "e", "a", "r", "s">>],
     [text |-> <<"3", "-", "5", " ", "y", "e", "a", "r", "s">>, value |-> <<"3", "-", "5", " ", "y", "e", "a", "r", "s">>],
     [text |-> <<"5", "-", "7", " ", "y", "e", "a", "r", "s">>, value |-> <<"5", "-", "7", " ", "y", "e", "a", "r", "s">>],
     [text |-> <<"7", "+", " ", "y", "e", "a", "r", "s">>, value |-> <<"7", "+", " ", "y", "e", "a", "r", "s">>] >>

\* "USA", "Canada", "UK"
CountryOptions ==
  << [text |-> <<"U", "S", "A">>, value |-> <<"U", "S", "A">>],
     [text |-> <<"C", "a", "n", "a", "d", "a">>, value |-> <<"C", "a", "n", "a", "d", "a">>],
     [text |-> <<"U", "K">>, value |-> <<"U", "K">>] >>

\* "United States", "United Kingdom", "Canada"
CountryNames ==
  << [text |-> <<"U", "n", "i", "t", "e", "d", " ", "S", "t", "a", "t", "e", "s">>, value |-> <<"u", "s">>],
     [text |-> <<"U", "n", "i", "t", "e", "d", " ", "K", "i", "n", "g", "d", "o", "m">>, value |-> <<"g", "b">>],
     [text |-> <<"C", "a", "n", "a", "d", "a">>, value |-> <<"c", "a">>] >>

\* "1 year", "4 years", "6 years", "8, 9 or 10 years"
SingleYears ==
  << [text |-> <<"1", " ", "y", "e", "a", "r">>, value |-> <<"a">>],
     [text |-> <<"4", " ", "y", "e", "a", "r", "s">>, value |-> <<"b">>],
     [text |-> <<"6", " ", "y", "e", "a", "r", "s">>, value |-> <<"c">>],
     [text |-> <<"8", ",", " ", "9", " ", "o", "r", " ", "1", "0", " ", "y", "e", "a", "r", "s">>, value |-> <<"d">>] >>

\* A blank first option, then "Yes" and "No".
BlankYesNo ==
  << [text |-> <<>>, value |-> <<>>],
     [text |-> <<"Y", "e", "s">>, value |-> <<"y">>],
     [text |-> <<"N", "o">>, value |-> <<"n">>] >>

OptionPool ==
  {YearsOptions, CountryOptions, CountryNames, SingleYears, BlankYesNo, <<>>}

\* Answers handed to setValue for a select.
ValPool ==
  { <<"7">>,
    <<"6">>,
    <<"9">>,
    <<"1", "2">>,
    <<"3", " ", "y", "e", "a", "r", "s">>,
    <<"U", "n", "i", "t", "e", "d", " ", "S", "t", "a", "t", "e", "s", " ", "o", "f", " ", "A", "m", "e", "r", "i", "c", "a">>,
    <<"K", "i", "n", "g", "d", "o", "m", " ", "o", "f", " ", "B", "r", "i", "t", "a", "i", "n">>,
    <<"c", "a", "n", "a", "d", "a">>,
    <<" ", "Y", "e", "s", " ">>,
    <<>>,
    <<"M", "a", "y", "b", "e">>,
    <<"0">> }

\* A select control with the given options.
SelectElement(options) ==
  [tag |-> "select", type |-> "select-one", id |-> <<>>, name |-> <<>>,
   placeholder |-> <<>>, aria |-> <<>>, visible |-> TRUE, options |-> options]

\* One call setValue(el, val) on a select: the control, the answer, the
\* control's value (that of its first option before the call), the change
\* events dispatched on it, and what the call returned.
NewSel(options, val) ==
  [pc |-> "asked", el |-> SelectElement(options), val |-> val,
   value |-> IF options = <<>> THEN <<>> ELSE options[1].value,
   changes |-> 0, ret |-> "none"]

\* No call.
IdleSel == [NewSel(<<>>, <<>>) EXCEPT !.pc = "idle"]

\* The first strategy of the select branch accepts option o.
ExactAccepts(o, val) ==
  LET valLower == trim(toLowerCase(val))
      optText == trim(toLowerCase(o.text))
      optValue == trim(toLowerCase(o.value))
  IN optText = valLower \/ optValue = valLower
       \/ includes(optText, valLower) \/ includes(valLower, optText)

\* The second strategy is consulted (the answer is a positive number) and
\* accepts option o.
RangeAccepts(o, val) ==
  LET valLower == trim(toLowerCase(val))
      valNum == parseFloat(valLower)
      optText == toLowerCase(o.text)
      nums == DigitRuns(optText)
  IN /\ valNum # NaN
     /\ valNum > 0
     /\ IF Len(nums) = 2 THEN valNum >= nums[1] /\ valNum <= nums[2]
        ELSE IF Len(nums) = 1 THEN valNum - nums[1] <= 2 /\ nums[1] - valNum <= 2
        ELSE WordTest(optText, NumberString(valNum))

\* The third strategy is consulted (the answer has more than one word) and
\* accepts option o.
WordsAccepts(o, val) ==
  LET valLower == trim(toLowerCase(val))
      valWords == SelectSeq(split(valLower), LAMBDA w : Len(w) > 2)
      optText == toLowerCase(o.text)
  IN /\ Len(split(valLower)) > 1
     /\ \/ \A w \in Range(valWords) : includes(optText, w)
        \/ \E w \in Range(split(optText)) : w \in Range(valWords)

\* The fourth strategy accepts option o.
PartialAccepts(o, val) ==
  LET valLower == trim(toLowerCase(val))
      optText == toLowerCase(o.text)
  IN includes(optText, valLower) \/ includes(valLower, optText)

\* ------------------------------------------------------------ the document
\* A document is a sequence of elements in document order; parent is the
\* position of the parent element (0 for none), text the element's own
\* text, for, labelledby and aria the attributes for, aria-labelledby and
\* aria-label, and display, visibility and offsetParent what the style and
\* layout of the element say.  <<>> stands for an absent attribute.
Element(tag, parent, text) ==
  [tag |-> tag, parent |-> parent, text |-> text, id |-> <<>>, for |-> <<>>,
   name |-> <<>>, placeholder |-> <<>>, aria |-> <<>>, labelledby |-> <<>>,
   type |-> "", display |-> "block", visibility |-> "visible",
   offsetParent |-> TRUE]

\* node is inside a: a is its parentElement, or that one's, and so on.
RECURSIVE IsInside(_, _, _)
IsInside(doc, node, a) ==
  LET p == doc[node].parent
  IN p # 0 /\ (p = a \/ IsInside(doc, p, a))

\* The text of n and of the elements inside it, in document order, from
\* element m on.
RECURSIVE TextFrom(_, _, _)
TextFrom(doc, n, m) ==
  IF m > Len(doc) THEN <<>>
  ELSE (IF m = n \/ IsInside(doc, m, n) THEN doc[m].text ELSE <<>>)
         \o TextFrom(doc, n, m + 1)

\* n.innerText
innerText(doc, n) == TextFrom(doc, n, n)

\* document.querySelector(`label[for="${id}"]`)
querySelectorLabelFor(doc, id) ==
  First({x \in 1..Len(doc) : doc[x].tag = "label" /\ doc[x].for = id})

\* n.closest(tag): n itself or the nearest element around it with that tag.
RECURSIVE closest(_, _, _)
closest(doc, n, tag) ==
  IF n = 0 THEN 0
  ELSE IF doc[n].tag = tag THEN n
  ELSE closest(doc, doc[n].parent, tag)

\* n.previousElementSibling
previousElementSibling(doc, n) ==
  LET S == {x \in 1..(n - 1) : doc[x].parent = doc[n].parent}
  IN IF S = {} THEN 0 ELSE CHOOSE x \in S : \A y \in S : y <= x

\* n.querySelector("h1,h2,h3,h4,strong,b")
HeadingTags == {"h1", "h2", "h3", "h4", "strong", "b"}
querySelectorHeading(doc, n) ==
  First({x \in 1..Len(doc) : IsInside(doc, x, n) /\ doc[x].tag \in HeadingTags})

\* What one strategy of getLabelForElement gives: nothing, or the text it
\* returns.
NotFound == [found |-> FALSE, text |-> <<>>]
Found(t) == [found |-> TRUE, text |-> t]

\* Strategy 1: label[for]
ForLabel(doc, el) ==
  IF doc[el].id = <<>> THEN NotFound
  ELSE LET lab == querySelectorLabelFor(doc, doc[el].id)
       IN IF lab # 0 /\ trim(innerText(doc, lab)) # <<>>
            THEN Found(trim(innerText(doc, lab)))
            ELSE NotFound

\* Strategy 2: closest parent label
ParentLabel(doc, el) ==
  LET parentLabel == closest(doc, el, "label")
  IN IF parentLabel # 0 /\ trim(innerText(doc, parentLabel)) # <<>>
       THEN Found(trim(innerText(doc, parentLabel)))
       ELSE NotFound

\* Strategy 3: aria-labelledby
LabelledBy(doc, el) ==
  LET aria == doc[el].labelledby
      ai == getElementById(doc, aria)
  IN IF aria # <<>> /\ ai # 0 /\ trim(innerText(doc, ai)) # <<>>
       THEN Found(trim(innerText(doc, ai)))
       ELSE NotFound

\* prev.innerText.trim().length < 80
ShortText == 80

\* Strategy 4: preceding sibling; i is the loop counter.
RECURSIVE PrecedingSibling(_, _, _)
PrecedingSibling(doc, prev, i) ==
  IF i >= 4 \/ prev = 0 THEN NotFound
  ELSE LET t == innerText(doc, prev)
       IN IF doc[prev].tag = "label" /\ trim(t) # <<>> THEN Found(trim(t))
          ELSE IF t # <<>> /\ Len(trim(t)) < ShortText THEN Found(trim(t))
          ELSE PrecedingSibling(doc, previousElementSibling(doc, prev), i + 1)

\* Strategy 5: placeholder / aria-label
PlaceholderOrAria(doc, el) ==
  IF trim(doc[el].placeholder) # <<>> THEN Found(trim(doc[el].placeholder))
  ELSE IF doc[el].aria # <<>> THEN Found(trim(doc[el].aria))
  ELSE NotFound

\* Strategy 6: nearest heading or strong text above; i is the loop counter.
RECURSIVE AncestorHeading(_, _, _)
AncestorHeading(doc, node, i) ==
  IF i >= 6 \/ doc[node].parent = 0 THEN NotFound
  ELSE LET p == doc[node].parent
           heading == querySelectorHeading(doc, p)
       IN IF heading # 0 /\ trim(innerText(doc, heading)) # <<>>
            THEN Found(trim(innerText(doc, heading)))
            ELSE AncestorHeading(doc, p, i + 1)

\* "(no-label)"
NoLabel == <<"(", "n", "o", "-", "l", "a", "b", "e", "l", ")">>

\* The six strategies in the order getLabelForElement tries them.
Strategies(doc, el) ==
  << ForLabel(doc, el), ParentLabel(doc, el), LabelledBy(doc, el),
     PrecedingSibling(doc, previousElementSibling(doc, el), 0),
     PlaceholderOrAria(doc, el), AncestorHeading(doc, el, 0) >>

\* getLabelForElement(el): what the first strategy that returns gives, or
\* the sentinel.
getLabelForElement(doc, el) ==
  LET s == Strategies(doc, el)
      j == First({x \in 1..Len(s) : s[x].found})
  IN IF j = 0 THEN NoLabel ELSE s[j].text

\* The filter of extractFields.
IsVisible(e) ==
  e.display # "none" /\ e.visibility # "hidden" /\ e.offsetParent

\* The descriptor extractFields makes of element el; <<>> stands for null.
Descriptor(doc, el) ==
  [tag |-> doc[el].tag, name |-> doc[el].name, id |-> doc[el].id,
   placeholder |-> doc[el].placeholder, type |-> doc[el].type,
   aria_label |-> doc[el].aria, label_text |-> getLabelForElement(doc, el),
   element |-> <<>>]

\* The descriptors of the visible controls from element n on.
RECURSIVE Fields(_, _)
Fields(doc, n) ==
  IF n > Len(doc) THEN <<>>
  ELSE (IF IsControl(doc[n]) /\ IsVisible(doc[n])
          THEN <<Descriptor(doc, n)>> ELSE <<>>)
         \o Fields(doc, n + 1)

\* `${f.id || ""}::${f.name || ""}::${f.label_text || ""}`
Key(f) == f.id \o <<":", ":">> \o f.name \o <<":", ":">> \o f.label_text

\* The loop that removes duplicates.
RECURSIVE Dedupe(_, _, _)
Dedupe(fields, seen, out) ==
  IF fields = <<>> THEN out
  ELSE LET f == Head(fields)
       IN IF Key(f) \in seen THEN Dedupe(Tail(fields), seen, out)
          ELSE Dedupe(Tail(fields), seen \cup {Key(f)}, Append(out, f))

\* extractFields()
extractFields(doc) == Dedupe(Fields(doc, 1), {}, <<>>)

\* Texts an element or an attribute can hold: none, white space only, a
\* letter; and a text of ShortText characters.
TextPool(c) == {<<>>, <<" ">>, <<c>>}
LongText == [i \in 1..ShortText |-> "x"]

\* A page with one text input (id c, aria-labelledby r) inside a label or a
\* div, after a span; before them a heading, the element with id r and a
\* label for c.
LabelPage(head, ref, forText, wrap, sib, placeholder, aria) ==
  << Element("form", 0, <<>>),
     Element("h3", 1, head),
     [Element("span", 1, ref) EXCEPT !.id = <<"r">>],
     [Element("label", 1, forText) EXCEPT !.for = <<"c">>],
     Element(wrap.tag, 1, wrap.text),
     Element("span", 5, sib),
     [Element("input", 5, <<>>) EXCEPT !.id = <<"c">>, !.type = "text",
                                       !.labelledby = <<"r">>,
                                       !.placeholder = placeholder,
                                       !.aria = aria] >>

WrapPool ==
  {[tag |-> "div", text |-> <<>>]} \cup {[tag |-> "label", text |-> t] : t \in TextPool("W")}

LabelPages ==
  {LabelPage(head, ref, forText, wrap, sib, placeholder, aria) :
     head \in TextPool("H"), ref \in TextPool("R"), forText \in TextPool("F"),
     wrap \in WrapPool, sib \in TextPool("S") \cup {LongText},
     placeholder \in TextPool("P"), aria \in TextPool("A")}

\* Controls of a form: an input and a textarea with the same id, name and
\* placeholder; two inputs whose ids and names hold colons; a visible
\* select; and controls that are not displayed, hidden, or without layout.
ControlPool ==
  { [Element("input", 1, <<>>) EXCEPT !.type = "text", !.id = <<"a">>, !.name = <<"b">>, !.placeholder = <<"P">>],
    [Element("textarea", 1, <<>>) EXCEPT !.type = "textarea", !.id = <<"a">>, !.name = <<"b">>, !.placeholder = <<"P">>],
    [Element("input", 1, <<>>) EXCEPT !.type = "text", !.id = <<"a", ":", ":", "b">>, !.placeholder = <<"P">>],
    [Element("input", 1, <<>>) EXCEPT !.type = "text", !.id = <<"a">>, !.name = <<"b", ":", ":">>, !.placeholder = <<"P">>],
    [Element("select", 1, <<>>) EXCEPT !.type = "select-one", !.id = <<"s">>, !.aria = <<"A">>],
    [Element("input", 1, <<>>) EXCEPT !.type = "hidden", !.id = <<"h">>, !.display = "none", !.offsetParent = FALSE],
    [Element("input", 1, <<>>) EXCEPT !.type = "text", !.name = <<"v">>, !.visibility = "hidden"],
    [Element("input", 1, <<>>) EXCEPT !.type = "text", !.name = <<"o">>, !.offsetParent = FALSE] }

\* A form with the given controls.
FormPage(controls) == <<Element("form", 0, <<>>)>> \o controls

FormPages ==
  {FormPage(controls) : controls \in UNION {[1..n -> ControlPool] : n \in 0..MaxControls}}

PagePool == LabelPages \cup FormPages

\* The document and the calls of extractFields on it: each returned list
\* with the number of changes the page had made to the document before; and
\* the calls of findElementForField on it: each descriptor with the element
\* the call returned.
NewScan(doc) == [doc |-> doc, outs |-> <<>>, epoch |-> 0, found |-> <<>>]

\* No document scanned.
IdleScan == NewScan(<<>>)

\* ------------------------------------------------------------ pages to resolve on
\* Items of a form, each a control with what labels it; parent 0 in an item
\* stands for the element just before.  Two inputs with the same id; an
\* input with the name of the first and a placeholder that is part of the
\* second's; two inputs whose aria-labels hold the same two words; an input
\* inside a label; an input inside a label that is for the id a; an input
\* that is not displayed; an input whose name holds a double quote; an
\* input with no attribute and no label; an input with only a placeholder,
\* which is part of the second's.
ItemPool ==
  { << [Element("input", 1, <<>>) EXCEPT !.type = "text", !.id = <<"a">>, !.name = <<"n">>] >>,
    << [Element("input", 1, <<>>) EXCEPT !.type = "text", !.id = <<"a">>, !.name = <<"m">>, !.placeholder = <<"P", "q">>] >>,
    << [Element("input", 1, <<>>) EXCEPT !.type = "text", !.name = <<"n">>, !.placeholder = <<"P">>] >>,
    << [Element("input", 1, <<>>) EXCEPT !.type = "text", !.aria = <<"A", " ", "b">>] >>,
    << [Element("input", 1, <<>>) EXCEPT !.type = "text", !.aria = <<"b", " ", "A">>] >>,
    << Element("label", 1, <<"L">>),
       [Element("input", 0, <<>>) EXCEPT !.type = "text"] >>,
    << [Element("label", 1, <<"F">>) EXCEPT !.for = <<"a">>],
       [Element("input", 0, <<>>) EXCEPT !.type = "text"] >>,
    << [Element("input", 1, <<>>) EXCEPT !.type = "text", !.aria = <<"b">>, !.display = "none", !.offsetParent = FALSE] >>,
    << [Element("input", 1, <<>>) EXCEPT !.type = "text", !.name = <<"q", "\"">>] >>,
    << [Element("input", 1, <<>>) EXCEPT !.type = "text"] >>,
    << [Element("input", 1, <<>>) EXCEPT !.type = "text", !.placeholder = <<"Q">>] >> }

RECURSIVE Flatten(_)
Flatten(items) == IF items = <<>> THEN <<>> ELSE Head(items) \o Flatten(Tail(items))

\* The form with the given items.
ItemPage(items) ==
  LET all == <<Element("form", 0, <<>>)>> \o Flatten(items)
  IN [n \in 1..Len(all) |->
        IF n > 1 /\ all[n].parent = 0 THEN [all[n] EXCEPT !.parent = n - 1] ELSE all[n]]

ItemPages == {ItemPage(items) : items \in UNION {[1..n -> ItemPool] : n \in 0..MaxItems}}

\* ------------------------------------------------------------ resolution on a page
\* The elements as findElementForField reads them: visible stands for
\* offsetParent !== null.
Elements(doc) == [n \in 1..Len(doc) |-> [visible |-> doc[n].offsetParent] @@ doc[n]]

\* lab.querySelector('input,textarea,select')
querySelectorControlIn(doc, lab) ==
  First({x \in 1..Len(doc) : IsControl(doc[x]) /\ IsInside(doc, x, lab)})

\* Array.from(document.querySelectorAll('label')), from element n on: each
\* label with its innerText, its for attribute and the first control inside.
RECURSIVE LabelsFrom(_, _)
LabelsFrom(doc, n) ==
  IF n > Len(doc) THEN <<>>
  ELSE (IF doc[n].tag = "label"
          THEN <<[innerText |-> innerText(doc, n), for |-> doc[n].for,
                  inside |-> querySelectorControlIn(doc, n)]>>
          ELSE <<>>)
         \o LabelsFrom(doc, n + 1)

\* The scan after one more call of findElementForField, with descriptor f.
AfterFind(s, f) ==
  [s EXCEPT !.found =
     Append(@, [field |-> f,
                el |-> findElementForField(Elements(s.doc), LabelsFrom(s.doc, 1), f)])]

\* ------------------------------------------------------------ the page
\* The form of the page the agent runs in: a text input, a select, a file
\* input, and a text input whose name holds a double quote.
Document ==
  << [tag |-> "input", type |-> "text", id |-> <<"e", "m">>, name |-> <<"e", "m">>,
    placeholder |-> <<>>, aria |-> <<>>, visible |-> TRUE,
    options |-> <<>>],
     [tag |-> "select", type |-> "select-one", id |-> <<"n", "t">>, name |-> <<"n", "t">>,
    placeholder |-> <<>>, aria |-> <<>>, visible |-> TRUE,
    options |-> <<[text |-> <<"Y", "e", "s">>, value |-> <<"y">>], [text |-> <<"N", "o">>, value |-> <<"n">>]>>],
     [tag |-> "input", type |-> "file", id |-> <<"c", "v">>, name |-> <<"c", "v">>,
    placeholder |-> <<>>, aria |-> <<>>, visible |-> TRUE,
    options |-> <<>>],
     [tag |-> "input", type |-> "text", id |-> <<>>, name |-> <<"p", "\"">>,
    placeholder |-> <<>>, aria |-> <<>>, visible |-> TRUE,
    options |-> <<>>] >>

\* Its label elements.
Labels ==
  << [innerText |-> <<"E", "m", "a", "i", "l">>, for |-> <<"e", "m">>, inside |-> 0],
     [innerText |-> <<"E", "m", "a", "i", "l", " ", "m", "e">>, for |-> <<"n", "t">>, inside |-> 0],
     [innerText |-> <<"R", "e", "s", "u", "m", "e">>, for |-> <<"c", "v">>, inside |-> 0],
     [innerText |-> <<"P", "h", "o", "n", "e">>, for |-> <<>>, inside |-> 4] >>

\* Field descriptors as extractFields gives them for this page, and one of a
\* control that is no longer there.
FieldPool ==
  { [label_text |-> <<"E", "m", "a", "i", "l">>, aria_label |-> <<>>, placeholder |-> <<>>,
    name |-> <<"e", "m">>, id |-> <<"e", "m">>],
    [label_text |-> <<"E", "m", "a", "i", "l", " ", "m", "e">>, aria_label |-> <<>>, placeholder |-> <<>>,
    name |-> <<"n", "t">>, id |-> <<"n", "t">>],
    [label_text |-> <<"R", "e", "s", "u", "m", "e">>, aria_label |-> <<>>, placeholder |-> <<>>,
    name |-> <<"c", "v">>, id |-> <<"c", "v">>],
    [label_text |-> <<"P", "h", "o", "n", "e">>, aria_label |-> <<>>, placeholder |-> <<>>,
    name |-> <<"p", "\"">>, id |-> <<>>],
    [label_text |-> <<"O", "t", "h", "e", "r">>, aria_label |-> <<>>, placeholder |-> <<>>,
    name |-> <<>>, id |-> <<"z", "z">>] }

\* answersMap: null, empty, and two sets of answers.
NoAnswers == [null |-> FALSE, map |-> <<>>]
AnswerPool ==
  { [null |-> TRUE, map |-> <<>>],
    NoAnswers,
    [null |-> FALSE,
     map |-> (<<"E", "m", "a", "i", "l">> :> <<"a", "@", "b", ".", "c", "o">>) @@ (<<"E", "m", "a", "i", "l", " ", "m", "e">> :> <<"M", "a", "y", "b", "e">>) @@ (<<"P", "h", "o", "n", "e">> :> <<"1", "2", "3", "4", "5", "6", "7">>)
             @@ (<<"O", "t", "h", "e", "r">> :> <<"x">>)],
    [null |-> FALSE, map |-> (<<"E", "m", "a", "i", "l", " ", "m", "e">> :> <<" ", "n", "o", " ">>) @@ (<<"E", "m", "a", "i", "l">> :> <<" ">>)] }

\* parsed_resume: null, without raw_text, with an address and a number.
ResumePool ==
  { [given |-> FALSE, raw_text |-> <<>>],
    [given |-> TRUE, raw_text |-> <<>>],
    [given |-> TRUE, raw_text |-> <<"a", "@", "b", ".", "c", "o", " ", "1", "2", "3", "4", "5", "6", "7">>] }

\* resumeFile: null, a file, a file whose data is not base64.
NoFile == [given |-> FALSE, data |-> <<>>]
FilePool ==
  { NoFile,
    [given |-> TRUE, data |-> <<"Q", "U", "J", "D">>],
    [given |-> TRUE, data |-> <<"%">>] }

\* ------------------------------------------------------------ autofillFields
\* One call of autofillFields(fields, answersMap, parsed_resume, resumeFile):
\* its arguments, its position (k is the next field of the main loop), its
\* filledCount, what it did to the page, and what it returned.  attempted and
\* filled record the fields the main loop reached and the fields whose
\* setValue reported success; miscounted counts the increments of filledCount
\* made for a setValue that reported failure.
NewFill(fields, answersMap, parsed_resume, resumeFile) ==
  [pc |-> "main", fields |-> fields, answersMap |-> answersMap,
   parsed_resume |-> parsed_resume, resumeFile |-> resumeFile,
   k |-> 1, filledCount |-> 0,
   values |-> [i \in 1..Len(Document) |-> <<>>], files |-> {},
   clicks |-> [i \in 1..Len(Document) |-> 0],
   attempted |-> {}, filled |-> {}, miscounted |-> 0,
   raised |-> FALSE, ret |-> "none"]

\* No call.
IdleFill == [NewFill(<<>>, NoAnswers, [given |-> FALSE, raw_text |-> <<>>], NoFile)
               EXCEPT !.pc = "idle"]

\* As Raise, but with no outer catch: the error reaches the caller.
RaiseToCaller(s) == [s EXCEPT !.pc = "done", !.raised = TRUE, !.ret = "threw"]

\* The outer catch: return false.
Raise(s) == [s EXCEPT !.pc = "done", !.raised = TRUE, !.ret = "false"]

\* What a setValue call with result r did to element el of the page.
Done(s, el, r) ==
  [s EXCEPT !.values = IF r.does = "value" THEN [@ EXCEPT ![el] = r.value] ELSE @,
            !.files = IF r.does = "files" THEN @ \cup {el} ELSE @,
            !.clicks = IF r.does = "click" THEN [@ EXCEPT ![el] = @ + 1] ELSE @]

\* const ok = await setValue(...); if (ok) filledCount += 1;
Counted(s, k, el, r) ==
  [Done(s, el, r) EXCEPT !.filledCount = IF r.ok THEN @ + 1 ELSE @,
                         !.filled = IF r.ok THEN @ \cup {k} ELSE @]

\* if (el && setValue(...)) filledCount++: the promise setValue returns is
\* not awaited, and a promise is truthy.
CountedUnawaited(s, k, el, r) ==
  [Done(s, el, r) EXCEPT !.filledCount = @ + 1,
                         !.filled = IF r.ok THEN @ \cup {k} ELSE @,
                         !.miscounted = IF r.ok THEN @ ELSE @ + 1]

\* f.label_text || f.aria_label || f.placeholder || f.name || f.id || "(no-label)"
LabelOf(f) ==
  IF f.label_text # <<>> THEN f.label_text
  ELSE IF f.aria_label # <<>> THEN f.aria_label
  ELSE IF f.placeholder # <<>> THEN f.placeholder
  ELSE IF f.name # <<>> THEN f.name
  ELSE IF f.id # <<>> THEN f.id
  ELSE <<"(", "n", "o", "-", "l", "a", "b", "e", "l", ")">>

\* answersMap[lbl] !== undefined ? answersMap[lbl] : (answersMap[lbl.trim()] || "")
CandidateAnswer(map, lbl) ==
  IF lbl \in DOMAIN map THEN map[lbl]
  ELSE IF trim(lbl) \in DOMAIN map THEN map[trim(lbl)]
  ELSE <<>>

\* The control the main loop resolves for its next field: 0 when there is
\* none, when the resolution raises, or when the loop is over.
Target(s) ==
  IF s.pc # "main" \/ s.k > Len(s.fields) \/ s.answersMap.null THEN 0
  ELSE LET el == findElementForField(Document, Labels, s.fields[s.k])
       IN IF el = SyntaxError THEN 0 ELSE el

\* As MainStep, but without the two continue statements for a missing or
\* blank answer.
MainStepNoSkip(s) ==
  LET k == s.k
      f == s.fields[k]
      t == [s EXCEPT !.k = k + 1, !.attempted = @ \cup {k}]
  IN IF s.answersMap.null THEN Raise(t)
     ELSE LET candidateAnswer == CandidateAnswer(s.answersMap.map, LabelOf(f))
              el == findElementForField(Document, Labels, f)
              val == trim(candidateAnswer)
          IN IF el = SyntaxError THEN Raise(t)
             ELSE IF el = 0 THEN t
             ELSE IF Document[el].type = "file"
               THEN Counted(t, k, el, setValue(Document[el], <<>>, s.resumeFile))
             ELSE Counted(t, k, el, setValue(Document[el], val, s.resumeFile))

\* One iteration of the main loop, for field k.
MainStep(s) ==
  LET k == s.k
      f == s.fields[k]
      t == [s EXCEPT !.k = k + 1, !.attempted = @ \cup {k}]
  IN IF s.answersMap.null THEN Raise(t)
     ELSE LET candidateAnswer == CandidateAnswer(s.answersMap.map, LabelOf(f))
              el == findElementForField(Document, Labels, f)
              val == trim(candidateAnswer)
          IN IF el = SyntaxError THEN Raise(t)
             ELSE IF el = 0 THEN t
             ELSE IF Document[el].type = "file"
               THEN Counted(t, k, el, setValue(Document[el], <<>>, s.resumeFile))
             ELSE IF candidateAnswer = <<>> THEN t
             ELSE IF val = <<>> THEN t
             ELSE Counted(t, k, el, setValue(Document[el], val, s.resumeFile))

\* One if of the fallback loop, for field k and the keyword kw.
FallbackIf(s, k, kw, value) ==
  LET f == s.fields[k]
      key == toLowerCase(f.label_text)
      byId == getElementById(Document, TemplateString(f.id))
      el == IF byId # 0 THEN byId
            ELSE querySelectorByName(Document, TemplateString(f.name))
  IN IF s.raised \/ ~includes(key, kw) \/ value = <<>> THEN s
     ELSE IF el = SyntaxError THEN Raise(s)
     ELSE IF el = 0 THEN s
     ELSE CountedUnawaited(s, k, el, setValue(Document[el], value, NoFile))

\* The fallback loop from field k on.
RECURSIVE FallbackPass(_, _, _, _)
FallbackPass(s, k, em, ph) ==
  IF s.raised \/ k > Len(s.fields) THEN s
  ELSE FallbackPass(
         FallbackIf(FallbackIf(s, k, <<"e", "m", "a", "i", "l">>, em),
                    k, <<"p", "h", "o", "n", "e">>, ph),
         k + 1, em, ph)

\* As Finish, but the fallback pass runs whenever a parsed resume was given.
FinishAlwaysFallback(s) ==
  LET raw == s.parsed_resume.raw_text
      em == IF raw # <<>> THEN EmailMatch(raw) ELSE <<>>
      ph == IF raw # <<>> THEN PhoneMatch(raw) ELSE <<>>
      t == IF s.parsed_resume.given
             THEN FallbackPass(s, 1, em, ph) ELSE s
  IN IF t.raised THEN t
     ELSE [t EXCEPT !.pc = "done",
                    !.ret = IF t.filledCount > 0 THEN "true" ELSE "false"]

\* After the main loop: the fallback pass if nothing was counted and a
\* parsed resume was given, then return filledCount > 0.
Finish(s) ==
  LET raw == s.parsed_resume.raw_text
      em == IF raw # <<>> THEN EmailMatch(raw) ELSE <<>>
      ph == IF raw # <<>> THEN PhoneMatch(raw) ELSE <<>>
      t == IF s.filledCount = 0 /\ s.parsed_resume.given
             THEN FallbackPass(s, 1, em, ph) ELSE s
  IN IF t.raised THEN t
     ELSE [t EXCEPT !.pc = "done",
                    !.ret = IF t.filledCount > 0 THEN "true" ELSE "false"]

\* The main loop handles its next field.
FillField ==
  /\ fill.pc = "main"
  /\ fill.k <= Len(fill.fields)
  /\ fill' = MainStep(fill)
  /\ UNCHANGED <<now, bgVars, popupVars, histVars, runs, sel, scan>>

\* The main loop is over: fallback pass and return.
FillReturn ==
  /\ fill.pc = "main"
  /\ fill.k > Len(fill.fields)
  /\ fill' = Finish(fill)
  /\ UNCHANGED <<now, bgVars, popupVars, histVars, runs, sel, scan>>

\* setValue(el, val) is called on the select and returns: el.value = opt.value
\* and a change event if an option was found.
SetValueOnSelect ==
  /\ sel.pc = "asked"
  /\ LET r == setValue(sel.el, sel.val, NoFile)
     IN sel' = [sel EXCEPT !.pc = "done",
                           !.value = IF r.does = "value" THEN r.value ELSE @,
                           !.changes = IF r.does = "value" THEN @ + 1 ELSE @,
                           !.ret = IF r.ok THEN "true" ELSE "false"]
  /\ UNCHANGED <<now, bgVars, popupVars, histVars, runs, fill, scan>>

\* As AfterExtract, but the scan gives every control it lists that has no
\* name a name of its own.
AfterExtractTagging(s) ==
  [s EXCEPT !.outs = Append(@, [list |-> extractFields(s.doc), epoch |-> s.epoch]),
            !.doc = [n \in 1..Len(s.doc) |->
                       IF IsControl(s.doc[n]) /\ IsVisible(s.doc[n]) /\ s.doc[n].name = <<>>
                         THEN [s.doc[n] EXCEPT !.name = <<"f">>] ELSE s.doc[n]]]

\* The scan after one more call of extractFields.
AfterExtract(s) ==
  [s EXCEPT !.outs = Append(@, [list |-> extractFields(s.doc), epoch |-> s.epoch])]

\* extractFields() is called and returns.
ExtractFieldsCall ==
  /\ scan.doc # <<>>
  /\ Len(scan.outs) < MaxCalls
  /\ scan' = AfterExtract(scan)
  /\ UNCHANGED <<now, bgVars, popupVars, histVars, runs, fill, sel>>

\* Between two calls the page stops displaying one of its controls.
PageHidesControl ==
  /\ scan.outs # <<>>
  /\ scan.epoch < MaxChanges
  /\ \E n \in 1..Len(scan.doc) :
       /\ IsControl(scan.doc[n])
       /\ scan.doc[n].display # "none"
       /\ scan' = [scan EXCEPT !.doc[n].display = "none", !.epoch = @ + 1]
  /\ UNCHANGED <<now, bgVars, popupVars, histVars, runs, fill, sel>>

\* findElementForField is called with a descriptor of the last list
\* extractFields returned, and returns or raises.
FindElementCall ==
  /\ scan.outs # <<>>
  /\ Len(scan.found) < MaxFinds
  /\ \E f \in Range(scan.outs[Len(scan.outs)].list) : scan' = AfterFind(scan, f)
  /\ UNCHANGED <<now, bgVars, popupVars, histVars, runs, fill, sel>>

\* ------------------------------------------------------------ AUTOFILL on a page
\* The page of Document as a tree: each control after or inside its label.
FormDocument ==
  << Element("form", 0, <<>>),
     [Element("label", 1, <<"E", "m", "a", "i", "l">>) EXCEPT !.for = <<"e", "m">>],
     [Element("input", 1, <<>>) EXCEPT !.type = "text", !.id = <<"e", "m">>, !.name = <<"e", "m">>],
     [Element("label", 1, <<"E", "m", "a", "i", "l", " ", "m", "e">>) EXCEPT !.for = <<"n", "t">>],
     [Element("select", 1, <<>>) EXCEPT !.type = "select-one", !.id = <<"n", "t">>, !.name = <<"n", "t">>],
     [Element("label", 1, <<"R", "e", "s", "u", "m", "e">>) EXCEPT !.for = <<"c", "v">>],
     [Element("input", 1, <<>>) EXCEPT !.type = "file", !.id = <<"c", "v">>, !.name = <<"c", "v">>],
     Element("label", 1, <<"P", "h", "o", "n", "e">>),
     [Element("input", 8, <<>>) EXCEPT !.type = "text", !.name = <<"p", "\"">>] >>

\* The same page while its form is not displayed, and a page without
\* controls.
HiddenDocument ==
  [n \in 1..Len(FormDocument) |->
     IF IsControl(FormDocument[n])
       THEN [FormDocument[n] EXCEPT !.offsetParent = FALSE] ELSE FormDocument[n]]

EmptyDocument == << Element("div", 0, <<>>), Element("h3", 1, <<"J", "o", "b">>) >>

\* The page while only its last input is without layout box (the controls
\* extractFields lists are then found by their ids, and the ranking, which
\* alone reads the layout, is not reached).
PartDocument == [FormDocument EXCEPT ![Len(FormDocument)].offsetParent = FALSE]

\* The arguments of the AUTOFILL message, kept until autofillFields or
\* fallbackFill is called: msg.parsed_resume || {} and msg.resume_file || null.
Message(parsed_resume, resume_file) ==
  [IdleFill EXCEPT !.parsed_resume = [parsed_resume EXCEPT !.given = TRUE],
                   !.resumeFile = resume_file]

\* One if of the loop of fallbackFill, for field f and the keyword kw:
\* el.value = value.  A select takes the value only if an option has it, a
\* file input raises on a value that is not empty.
FallbackFillIf(s, f, kw, value) ==
  LET key == toLowerCase(f.label_text)
      byId == getElementById(Document, TemplateString(f.id))
      el == IF byId # 0 THEN byId
            ELSE querySelectorByName(Document, TemplateString(f.name))
  IN IF s.raised \/ ~includes(key, kw) \/ value = <<>> THEN s
     ELSE IF el = SyntaxError THEN [s EXCEPT !.raised = TRUE]
     ELSE IF el = 0 THEN s
     ELSE IF Document[el].type = "file" THEN [s EXCEPT !.raised = TRUE]
     ELSE IF Document[el].tag = "select"
       THEN [s EXCEPT !.values[el] =
               IF \E o \in Range(Document[el].options) : o.value = value
                 THEN value ELSE <<>>]
     ELSE [s EXCEPT !.values[el] = value]

\* fallbackFill(fields, parsed_resume), from field k on.
RECURSIVE fallbackFill(_, _, _)
fallbackFill(s, fields, k) ==
  LET raw == s.parsed_resume.raw_text
      em == IF raw # <<>> THEN EmailMatch(raw) ELSE <<>>
      ph == IF raw # <<>> THEN PhoneMatch(raw) ELSE <<>>
  IN IF s.raised \/ k > Len(fields) THEN s
     ELSE fallbackFill(
            FallbackFillIf(FallbackFillIf(s, fields[k], <<"e", "m", "a", "i", "l">>, em),
                           fields[k], <<"p", "h", "o", "n", "e">>, ph),
            fields, k + 1)

\* As AutofillOnPage, but the branch without fields does not return after
\* its reply.
AutofillOnPageNoReturn ==
  /\ runs["AUTOFILL"].pc = "idle"
  /\ scan.doc # <<>>
  /\ scan' = AfterExtract(scan)
  /\ LET fields == extractFields(scan.doc)
     IN runs' = [runs EXCEPT
                   !["AUTOFILL"] = IF fields = <<>>
                                     THEN [sendResponse(Started("sync"), "no_fields")
                                             EXCEPT !.pc = "gists"]
                                     ELSE Started("gists"),
                   !["BG_GENERATE_GISTS"] = Started("fetch")]
  /\ UNCHANGED <<now, bgVars, popupVars, histVars, fill, sel>>

\* The AUTOFILL message arrives in the page agent: extractFields; without
\* fields sendResponse and return; else BG_GENERATE_GISTS is sent to the
\* background, whose handler starts its remote call.  return true.
AutofillOnPage ==
  /\ runs["AUTOFILL"].pc = "idle"
  /\ scan.doc # <<>>
  /\ scan' = AfterExtract(scan)
  /\ LET fields == extractFields(scan.doc)
     IN runs' = IF fields = <<>>
                 THEN [runs EXCEPT !["AUTOFILL"] = sendResponse(Started("sync"), "no_fields")]
                 ELSE [runs EXCEPT !["AUTOFILL"] = Started("gists"),
                                   !["BG_GENERATE_GISTS"] = Started("fetch")]
  /\ UNCHANGED <<now, bgVars, popupVars, histVars, fill, sel>>

\* The background's reply arrives, or none does (lastError, the promise
\* rejects into the catch).  A reply that is not ok: fallbackFill, which may
\* raise into the catch, and sendResponse.  A reply with answers:
\* autofillFields is called.
AutofillGot ==
  /\ runs["AUTOFILL"].pc = "gists"
  /\ runs["BG_GENERATE_GISTS"].pc = "done"
  /\ LET fields == scan.outs[Len(scan.outs)].list
         how == runs["BG_GENERATE_GISTS"].path
     IN \/ /\ runs' = [runs EXCEPT !["AUTOFILL"] = sendResponse(@, "catch")]
           /\ UNCHANGED fill
        \/ /\ how # "ok"
           /\ fill' = fallbackFill(fill, fields, 1)
           /\ runs' = [runs EXCEPT !["AUTOFILL"] =
                         sendResponse(@, IF fill'.raised THEN "no_gists_catch"
                                         ELSE "no_gists")]
        \/ /\ how = "ok"
           /\ \E answers \in AnswerPool :
                fill' = NewFill(fields, answers, fill.parsed_resume, fill.resumeFile)
           /\ runs' = [runs EXCEPT !["AUTOFILL"].pc = "fill"]
  /\ UNCHANGED <<now, bgVars, popupVars, histVars, sel, scan>>

\* autofillFields has returned: sendResponse with autofill_complete or
\* autofill_partial.
AutofillReplies ==
  /\ runs["AUTOFILL"].pc = "fill"
  /\ fill.pc = "done"
  /\ runs' = [runs EXCEPT !["AUTOFILL"] =
                sendResponse(@, IF fill.ret = "true" THEN "autofill_complete"
                                ELSE "autofill_partial")]
  /\ UNCHANGED <<now, bgVars, popupVars, histVars, fill, sel, scan>>

\* ------------------------------------------------------------ initial state
\* The popup is closed and the background context is new.  An earlier run may
\* have been killed during a call: its processing record is still stored.
Init ==
  /\ now = 0
  /\ \E left \in SUBSET LeftIds :
       /\ store = [id \in ReqIds |->
                    IF id \in left THEN Rec("processing", 0, "") ELSE NoRec]
       /\ req = [id \in ReqIds |->
                  IF id \in left THEN [IdleReq EXCEPT !.pc = "dead"] ELSE IdleReq]
       /\ writes = [id \in ReqIds |->
                     IF id \in left THEN << <<"processing", "">> >> ELSE <<>>]
  /\ pendingRequests = {}
  /\ keepAliveInterval = FALSE
  /\ gist = IdleGist
  /\ other = [k \in OtherKeys |-> 0]
  /\ sweep = IdleSweep
  /\ nextId = MaxLeft
  /\ checks = <<>>
  /\ cancels = <<>>
  /\ pushes = {}
  /\ popupOpen = FALSE
  /\ currentRequestId = 0
  /\ pollingInterval = 0
  /\ strayTimers = {}
  /\ pollingStartTime = 0
  /\ ui = "closed"
  /\ clickPrep = 0
  /\ submitReplies = {}
  /\ act = [pc |-> "done", snap |-> [id \in ReqIds |-> NoRec], keys |-> <<>>]
  /\ shown = [id \in ReqIds |-> 0]
  /\ results = [id \in ReqIds |-> 0]
  /\ termAnswers = [id \in ReqIds |-> 0]
  /\ bgCancelled = {}
  /\ popupCancelled = {}
  /\ outcome = [id \in ReqIds |-> [how |-> "none", body |-> ""]]
  /\ runs = [h \in Handlers |-> IdleRun]
  /\ sel = IdleSel
  /\ scan = IdleScan
  /\ fill = IdleFill

\* ------------------------------------------------------------ background
\* The backend call of id is outstanding (fetchWithTimeout has not returned).
CallOutstanding(id) == req[id].pc \in {"saving", "fetching", "reading"}

\* As StartScoreRequest, but the processing state is kept in memory only.
StartScoreRequestMemoryOnly(id) ==
  /\ keepAliveInterval' = startKeepAlive(keepAliveInterval)
  /\ store' = store
  /\ writes' = Append1(writes, id, <<"processing", "">>)
  /\ req' = [req EXCEPT ![id] = [IdleReq EXCEPT !.pc = "saving"]]

\* handleResumeScoreRequest up to its first await: startKeepAlive, then the
\* processing state is handed to storage.
StartScoreRequest(id) ==
  /\ keepAliveInterval' = startKeepAlive(keepAliveInterval)
  /\ store' = saveRequestState(store, id, Rec("processing", now, ""))
  /\ writes' = Append1(writes, id, <<"processing", "">>)
  /\ req' = [req EXCEPT ![id] = [IdleReq EXCEPT !.pc = "saving"]]

\* The BG_RESUME_SCORE handler: it issues the id, starts
\* handleResumeScoreRequest and enters its promise in pendingRequests; the
\* reply is sent without waiting for the promise.
ResumeScoreReceived(id) ==
  /\ nextId' = id
  /\ pendingRequests' = pendingRequests \cup {id}
  /\ StartScoreRequest(id)

\* The processing write returned: fetchWithTimeout arms its timer and fetches.
SaveDone(id) ==
  /\ req[id].pc = "saving"
  /\ req' = [req EXCEPT ![id] = [@ EXCEPT !.pc = "fetching",
                                          !.deadline = now + REQUEST_TIMEOUT]]
  /\ UNCHANGED <<runs, fill, sel, scan, now, gist, other, sweep, store, pendingRequests, keepAliveInterval, nextId, checks, cancels, pushes, popupVars, histVars>>

\* As WriteTerminal, but the error branch does not return: the error state is
\* written and then the complete state.
WriteTerminalFallThrough(id, res, how) ==
  /\ store' = saveRequestState(store, id, Rec("complete", 0, res.data))
  /\ writes' = IF ~res.ok
                 THEN Append1(Append1(writes, id, <<TerminalState(res).status, TerminalState(res).payload>>),
                              id, <<"complete", res.data>>)
                 ELSE Append1(writes, id, <<"complete", res.data>>)
  /\ outcome' = [outcome EXCEPT ![id] = [how |-> how, body |-> res.data]]
  /\ req' = [req EXCEPT ![id] = [@ EXCEPT !.pc = "writing", !.res = res]]
  /\ UNCHANGED <<runs, fill, sel, scan, now, gist, other, sweep, pendingRequests, keepAliveInterval, nextId, checks, cancels, pushes, popupVars, shown, results, termAnswers,
                 bgCancelled, popupCancelled>>

\* handleResumeScoreRequest after fetchWithTimeout returned res: the one
\* terminal state is handed to storage.
WriteTerminal(id, res, how) ==
  /\ store' = saveRequestState(store, id, TerminalState(res))
  /\ writes' = Append1(writes, id, <<TerminalState(res).status, TerminalState(res).payload>>)
  /\ outcome' = [outcome EXCEPT ![id] = [how |-> how, body |-> res.data]]
  /\ req' = [req EXCEPT ![id] = [@ EXCEPT !.pc = "writing", !.res = res]]
  /\ UNCHANGED <<runs, fill, sel, scan, now, gist, other, sweep, pendingRequests, keepAliveInterval, nextId, checks, cancels, pushes, popupVars, shown, results, termAnswers,
                 bgCancelled, popupCancelled>>

\* fetch resolved with the response headers: the timer is cleared, the body
\* is being read.
FetchResponse(id) ==
  /\ now \in EnvTimes
  /\ req[id].pc = "fetching"
  /\ \E r \in Responses :
       req' = [req EXCEPT ![id] = [@ EXCEPT !.pc = "reading", !.deadline = 0,
                                            !.res = FetchRead(r)]]
  /\ UNCHANGED <<runs, fill, sel, scan, now, gist, other, sweep, store, pendingRequests, keepAliveInterval, nextId, checks, cancels, pushes, popupVars, histVars>>

\* fetch rejected with an error other than the abort.
FetchError(id) ==
  /\ now \in EnvTimes
  /\ req[id].pc = "fetching"
  /\ WriteTerminal(id, FetchFailed, "threw")

\* The timer fired while fetch was pending: abort, AbortError.
FetchTimeout(id) ==
  /\ req[id].pc = "fetching"
  /\ now >= req[id].deadline
  /\ WriteTerminal(id, FetchAborted, "timeout")

\* res.json() / res.text() resolved.
BodyRead(id) ==
  /\ now \in EnvTimes
  /\ req[id].pc = "reading"
  /\ WriteTerminal(id, req[id].res, IF req[id].res.ok THEN "ok" ELSE "http_error")

\* res.json() / res.text() rejected.
BodyError(id) ==
  /\ now \in EnvTimes
  /\ req[id].pc = "reading"
  /\ WriteTerminal(id, FetchFailed, "threw")

\* As WriteDone, but a push that finds no listening popup fails the request:
\* the record is rewritten as an error.
WriteDoneFailedPushIsError(id) ==
  /\ req[id].pc = "writing"
  /\ keepAliveInterval' = stopKeepAlive(keepAliveInterval)
  /\ pendingRequests' = pendingRequests \ {id}
  /\ req' = [req EXCEPT ![id] = [IdleReq EXCEPT !.pc = "done"]]
  /\ pushes' = IF popupOpen
                 THEN pushes \cup {[rid |-> id, result |-> ReturnValue(req[id].res)]}
                 ELSE pushes
  /\ store' = IF popupOpen THEN store
                ELSE saveRequestState(store, id, Rec("error", 0, "push"))
  /\ UNCHANGED <<runs, fill, sel, scan, now, gist, other, sweep, nextId, checks, cancels, popupVars, histVars>>

\* The terminal write returned: finally (stopKeepAlive, pendingRequests.delete),
\* then the .then callback sends the SCORE_RESULT push.
WriteDone(id) ==
  /\ req[id].pc = "writing"
  /\ keepAliveInterval' = stopKeepAlive(keepAliveInterval)
  /\ pendingRequests' = pendingRequests \ {id}
  /\ req' = [req EXCEPT ![id] = [IdleReq EXCEPT !.pc = "done"]]
  /\ pushes' = IF popupOpen
                 THEN pushes \cup {[rid |-> id, result |-> ReturnValue(req[id].res)]}
                 ELSE pushes
  /\ UNCHANGED <<runs, fill, sel, scan, now, gist, other, sweep, store, nextId, checks, cancels, popupVars, histVars>>

\* ---- BG_GENERATE_GISTS
\* The handler up to its await: startKeepAlive, fetchWithTimeout arms its
\* timer and fetches /get-gist.
GistReceived ==
  /\ now \in EnvTimes
  /\ gist.pc = "idle"
  /\ keepAliveInterval' = startKeepAlive(keepAliveInterval)
  /\ gist' = [pc |-> "fetching", deadline |-> now + REQUEST_TIMEOUT, reply |-> ""]
  /\ UNCHANGED <<runs, fill, sel, scan, now, store, other, sweep, pendingRequests, req, nextId, checks, cancels, pushes, popupVars, histVars>>

\* fetch resolved with the response headers: the timer is cleared, the body
\* is being read.
GistResponse ==
  /\ now \in EnvTimes
  /\ gist.pc = "fetching"
  /\ gist' = [pc |-> "reading", deadline |-> 0, reply |-> ""]
  /\ UNCHANGED <<runs, fill, sel, scan, now, store, other, sweep, pendingRequests, keepAliveInterval, req, nextId, checks, cancels, pushes, popupVars, histVars>>

\* fetchWithTimeout returned: stopKeepAlive, then the one sendResponse.
GistReply(res) ==
  /\ keepAliveInterval' = stopKeepAlive(keepAliveInterval)
  /\ gist' = [IdleGist EXCEPT !.reply = JsOr(res.data, res.error)]
  /\ UNCHANGED <<runs, fill, sel, scan, now, store, other, sweep, pendingRequests, req, nextId, checks, cancels, pushes, popupVars, histVars>>

\* fetch rejected, or the body was read or its read rejected.
GistReturn ==
  /\ now \in EnvTimes
  /\ \/ gist.pc \in {"fetching", "reading"} /\ GistReply(FetchFailed)
     \/ gist.pc = "reading" /\ \E r \in Responses : GistReply(FetchRead(r))

\* The timer fired while fetch was pending: abort, AbortError.
GistTimeout ==
  /\ gist.pc = "fetching"
  /\ now >= gist.deadline
  /\ GistReply(FetchAborted)

\* ---- CHECK_REQUEST_STATUS
RemoveAt(q, i) == SubSeq(q, 1, i - 1) \o SubSeq(q, i + 1, Len(q))

\* As CheckStatus, but without the lookup in pendingRequests.
CheckStatusNoLookup(state, inPending) ==
  IF state.status = "none" THEN "not_found"
    ELSE IF state.status = "complete" THEN "complete"
    ELSE IF state.status = "error" THEN "error"
    ELSE "processing"

\* The status the handler answers for the state it read; inPending is
\* pendingRequests.has(requestId) when the answer is made.
CheckStatus(state, inPending) ==
  IF state.status = "none"
    THEN (IF inPending THEN "processing" ELSE "not_found")
    ELSE IF state.status = "complete" THEN "complete"
    ELSE IF state.status = "error" THEN "error"
    ELSE "processing"

\* The handler up to its first await: getRequestState is issued.
CheckReceived(id) ==
  [rid |-> id, pc |-> "get", st |-> getRequestState(store, id), reply |-> "",
   live |-> TRUE, afterCancel |-> id \in bgCancelled, win |-> FALSE]

\* getRequestState returned: answer at once, or issue clearRequestState first.
CheckGot(i) ==
  /\ i \in 1..Len(checks)
  /\ checks[i].pc = "get"
  /\ LET c == checks[i]
         status == CheckStatus(c.st, c.rid \in pendingRequests)
     IN IF status \in {"complete", "error"}
          THEN /\ store' = clearRequestState(store, c.rid)
               /\ checks' = [checks EXCEPT ![i] = [c EXCEPT !.pc = "clear"]]
          ELSE /\ store' = store
               /\ checks' = IF ~c.live THEN RemoveAt(checks, i)
                    ELSE [checks EXCEPT ![i] =
                      [c EXCEPT !.pc = "replied", !.reply = status,
                                !.win = CallOutstanding(c.rid) /\ c.rid \notin bgCancelled]]
  /\ UNCHANGED <<runs, fill, sel, scan, now, pendingRequests, keepAliveInterval, req, gist, other, sweep, nextId, cancels, pushes, popupVars, histVars>>

\* clearRequestState returned: the terminal status is answered.
CheckCleared(i) ==
  /\ i \in 1..Len(checks)
  /\ checks[i].pc = "clear"
  /\ LET c == checks[i]
     IN /\ checks' = IF ~c.live THEN RemoveAt(checks, i)
             ELSE [checks EXCEPT ![i] =
               [c EXCEPT !.pc = "replied", !.reply = CheckStatus(c.st, FALSE)]]
        /\ termAnswers' = Bump(termAnswers, c.rid)
  /\ UNCHANGED <<runs, fill, sel, scan, now, store, pendingRequests, keepAliveInterval, req, gist, other, sweep, nextId,
                 cancels, pushes, popupVars, shown, results, writes,
                 bgCancelled, popupCancelled, outcome>>

\* ---- CANCEL_REQUEST
\* The handler up to its first await: clearRequestState is issued.
CancelReceived(id) == [rid |-> id, pc |-> "clear", live |-> TRUE]

\* clearRequestState returned: pendingRequests.delete, stopKeepAlive, reply.
CancelCleared(i) ==
  /\ i \in 1..Len(cancels)
  /\ cancels[i].pc = "clear"
  /\ pendingRequests' = pendingRequests \ {cancels[i].rid}
  /\ keepAliveInterval' = stopKeepAlive(keepAliveInterval)
  /\ cancels' = IF ~cancels[i].live THEN RemoveAt(cancels, i)
                ELSE [cancels EXCEPT ![i] = [@ EXCEPT !.pc = "replied"]]
  /\ bgCancelled' = bgCancelled \cup {cancels[i].rid}
  /\ UNCHANGED <<runs, fill, sel, scan, now, store, req, gist, other, sweep, nextId, checks, pushes, popupVars,
                 shown, results, writes, termAnswers, popupCancelled, outcome>>

\* ---- the host kills the background context: its memory, timers, fetches
\* and running handlers are gone; storage and sent messages stay.
Replied(q) == SelectSeq(q, LAMBDA c : c.pc = "replied")

Teardown ==
  /\ now \in EnvTimes
  /\ \/ \E id \in ReqIds : req[id].pc \notin {"idle", "done", "dead"}
     \/ gist.pc # "idle"
     \/ sweep.pc \in {"get", "remove"}
     \/ Replied(checks) # checks
     \/ Replied(cancels) # cancels
  /\ pendingRequests' = {}
  /\ keepAliveInterval' = FALSE
  /\ req' = [id \in ReqIds |->
               IF req[id].pc \in {"idle", "done", "dead"} THEN req[id]
               ELSE [IdleReq EXCEPT !.pc = "dead"]]
  /\ gist' = IdleGist
  /\ sweep' = IdleSweep
  /\ checks' = Replied(checks)
  /\ cancels' = Replied(cancels)
  /\ UNCHANGED <<runs, fill, sel, scan, now, store, other, nextId, pushes, popupVars, histVars>>

\* ------------------------------------------------------------ popup
\* chrome.storage.local.set({ last_score_result, last_score_jd_url })
ScoreStored(o) == [o EXCEPT !["last_score_result"] = 1, !["last_score_jd_url"] = 1]

\* stopPolling: clearInterval(pollingInterval), all three variables to null
stopPolling ==
  /\ pollingInterval' = 0
  /\ currentRequestId' = 0
  /\ pollingStartTime' = 0

\* The interval startPolling and checkPendingRequest set: an interval already
\* held is overwritten, not cleared, and keeps firing.
SetPollingInterval ==
  /\ pollingInterval' = now + POLLING_INTERVAL
  /\ strayTimers' = IF pollingInterval # 0 THEN strayTimers \cup {pollingInterval}
                                           ELSE strayTimers

\* startPolling(requestId)
startPolling(id) ==
  /\ currentRequestId' = id
  /\ pollingStartTime' = now
  /\ SetPollingInterval

\* The score button's click handler up to its first await.
ScoreClick ==
  /\ now \in EnvTimes
  /\ popupOpen
  /\ IF pollingInterval # 0
       THEN /\ ui' = "message"
            /\ clickPrep' = clickPrep
       ELSE /\ nextId + clickPrep < MaxLeft + MaxReq
            /\ ui' = "message"
            /\ clickPrep' = clickPrep + 1
  /\ UNCHANGED <<runs, fill, sel, scan, now, bgVars, popupOpen, currentRequestId, pollingInterval,
                 strayTimers, pollingStartTime, submitReplies, act, histVars>>

\* The click handler after storage and tabs answered: it gives up (no resume,
\* no Greenhouse page) or sends BG_RESUME_SCORE.  The background's handler
\* issues the id, enters it in pendingRequests, starts
\* handleResumeScoreRequest and replies without waiting for it.
ClickSend ==
  /\ popupOpen
  /\ clickPrep > 0
  /\ clickPrep' = clickPrep - 1
  /\ \E proceed \in BOOLEAN :
       IF proceed
         THEN LET id == nextId + 1
              IN /\ ResumeScoreReceived(id)
                 /\ submitReplies' = submitReplies \cup {id}
         ELSE UNCHANGED <<nextId, pendingRequests, keepAliveInterval, store, writes,
                          req, gist, other, sweep, submitReplies>>
  /\ UNCHANGED <<runs, fill, sel, scan, now, gist, other, sweep, checks, cancels, pushes, popupOpen, currentRequestId, pollingInterval, strayTimers, pollingStartTime,
                 ui, act, shown, results, termAnswers, bgCancelled, popupCancelled,
                 outcome>>

\* The BG_RESUME_SCORE reply reaches the click handler: startPolling, then the
\* loading view.
SubmitReply(id) ==
  /\ id \in submitReplies
  /\ submitReplies' = submitReplies \ {id}
  /\ startPolling(id)
  /\ ui' = "loading"
  /\ UNCHANGED <<runs, fill, sel, scan, now, bgVars, popupOpen, clickPrep, act, histVars>>

\* As CheckRequestStatus, but comparing elapsed > REQUEST_TIMEOUT.
CheckRequestStatusLate(held, rearm) ==
  IF currentRequestId = 0
    THEN /\ pollingInterval' = IF held THEN rearm ELSE pollingInterval
         /\ UNCHANGED <<currentRequestId, pollingStartTime, ui, checks, shown>>
  ELSE IF now - pollingStartTime > POPUP_REQUEST_TIMEOUT
    THEN /\ stopPolling
         /\ ui' = "message"
         /\ shown' = Bump(shown, currentRequestId)
         /\ checks' = checks
  ELSE /\ Len(checks) < MaxPolls
       /\ checks' = Append(checks, CheckReceived(currentRequestId))
       /\ pollingInterval' = IF held THEN rearm ELSE pollingInterval
       /\ UNCHANGED <<currentRequestId, pollingStartTime, ui, shown>>

\* checkRequestStatus up to its await, called by an interval.  held says
\* whether the interval is the one pollingInterval holds.
CheckRequestStatus(held, rearm) ==
  IF currentRequestId = 0
    THEN /\ pollingInterval' = IF held THEN rearm ELSE pollingInterval
         /\ UNCHANGED <<currentRequestId, pollingStartTime, ui, checks, shown>>
  ELSE IF now - pollingStartTime >= POPUP_REQUEST_TIMEOUT
    THEN /\ stopPolling
         /\ ui' = "message"
         /\ shown' = Bump(shown, currentRequestId)
         /\ checks' = checks
  ELSE /\ Len(checks) < MaxPolls
       /\ checks' = Append(checks, CheckReceived(currentRequestId))
       /\ pollingInterval' = IF held THEN rearm ELSE pollingInterval
       /\ UNCHANGED <<currentRequestId, pollingStartTime, ui, shown>>

\* The interval pollingInterval holds fires.
PollTick ==
  /\ pollingInterval # 0
  /\ now = pollingInterval
  /\ CheckRequestStatus(TRUE, now + POLLING_INTERVAL)
  /\ UNCHANGED <<runs, fill, sel, scan, now, store, pendingRequests, keepAliveInterval, req, gist, other, sweep, nextId,
                 cancels, pushes, popupOpen, strayTimers, clickPrep,
                 submitReplies, act, results, writes, termAnswers, bgCancelled,
                 popupCancelled, outcome>>

\* An interval that no variable holds fires.
StrayTick(t) ==
  /\ t \in strayTimers
  /\ now = t
  /\ strayTimers' = (strayTimers \ {t}) \cup {now + POLLING_INTERVAL}
  /\ CheckRequestStatus(FALSE, 0)
  /\ UNCHANGED <<runs, fill, sel, scan, now, store, pendingRequests, keepAliveInterval, req, gist, other, sweep, nextId,
                 cancels, pushes, popupOpen, clickPrep,
                 submitReplies, act, results, writes, termAnswers, bgCancelled,
                 popupCancelled, outcome>>

\* As PollReply, but a reply of processing stops the polling as well.
PollReplyStopsOnProcessing(i) ==
  /\ i \in 1..Len(checks)
  /\ checks[i].pc = "replied"
  /\ checks' = RemoveAt(checks, i)
  /\ LET c == checks[i]
     IN IF ~c.live
          THEN UNCHANGED <<currentRequestId, pollingInterval, pollingStartTime, ui,
                           shown, results, other>>
        ELSE /\ stopPolling
             /\ ui' = "message"
             /\ shown' = IF c.reply \in {"not_found", "processing"} THEN shown
                          ELSE Bump(shown, c.rid)
             /\ results' = IF c.reply \in {"not_found", "processing"} THEN results
                            ELSE Bump(results, c.rid)
             /\ other' = IF c.reply = "complete" THEN ScoreStored(other) ELSE other
  /\ UNCHANGED <<runs, fill, sel, scan, now, store, pendingRequests, keepAliveInterval, req, gist, sweep, nextId,
                 cancels, pushes, popupOpen, strayTimers, clickPrep,
                 submitReplies, act, writes, termAnswers, bgCancelled, popupCancelled,
                 outcome>>

\* The poll's reply reaches checkRequestStatus (dropped if that popup is gone).
PollReply(i) ==
  /\ i \in 1..Len(checks)
  /\ checks[i].pc = "replied"
  /\ checks' = RemoveAt(checks, i)
  /\ LET c == checks[i]
     IN IF ~c.live
          THEN UNCHANGED <<currentRequestId, pollingInterval, pollingStartTime, ui,
                           shown, results, other>>
        ELSE IF c.reply = "processing"
          THEN /\ ui' = "loading"
               /\ UNCHANGED <<currentRequestId, pollingInterval, pollingStartTime,
                              shown, results, other>>
        ELSE /\ stopPolling
             /\ ui' = "message"
             /\ shown' = IF c.reply = "not_found" THEN shown ELSE Bump(shown, c.rid)
             /\ results' = IF c.reply = "not_found" THEN results ELSE Bump(results, c.rid)
             /\ other' = IF c.reply = "complete" THEN ScoreStored(other) ELSE other
  /\ UNCHANGED <<runs, fill, sel, scan, now, store, pendingRequests, keepAliveInterval, req, gist, sweep, nextId,
                 cancels, pushes, popupOpen, strayTimers, clickPrep,
                 submitReplies, act, writes, termAnswers, bgCancelled, popupCancelled,
                 outcome>>

\* As PushDeliver, but without the comparison of the push's requestId with
\* currentRequestId.
PushDeliverAnyRequest(p) ==
  /\ p \in pushes
  /\ pushes' = pushes \ {p}
  /\ stopPolling
  /\ ui' = "message"
  /\ shown' = Bump(shown, p.rid)
  /\ results' = Bump(results, p.rid)
  /\ other' = IF p.result.ok THEN ScoreStored(other) ELSE other
  /\ UNCHANGED <<runs, fill, sel, scan, now, store, pendingRequests, keepAliveInterval, req, gist, sweep, nextId,
                 checks, cancels, popupOpen, strayTimers, clickPrep,
                 submitReplies, act, writes, termAnswers, bgCancelled, popupCancelled,
                 outcome>>

\* The popup's onMessage listener for SCORE_RESULT.
PushDeliver(p) ==
  /\ p \in pushes
  /\ pushes' = pushes \ {p}
  /\ IF p.rid = currentRequestId
       THEN /\ stopPolling
            /\ ui' = "message"
            /\ shown' = Bump(shown, p.rid)
            /\ results' = Bump(results, p.rid)
            /\ other' = IF p.result.ok THEN ScoreStored(other) ELSE other
       ELSE UNCHANGED <<currentRequestId, pollingInterval, pollingStartTime, ui,
                        shown, results, other>>
  /\ UNCHANGED <<runs, fill, sel, scan, now, store, pendingRequests, keepAliveInterval, req, gist, sweep, nextId,
                 checks, cancels, popupOpen, strayTimers, clickPrep,
                 submitReplies, act, writes, termAnswers, bgCancelled, popupCancelled,
                 outcome>>

\* cancelCurrentRequest up to its await (the button is part of the loading
\* view).  With a current request the background's handler starts.
CancelClick ==
  /\ now \in EnvTimes
  /\ popupOpen
  /\ ui = "loading"
  /\ IF currentRequestId # 0
       THEN /\ Len(cancels) < MaxCancels
            /\ cancels' = Append(cancels, CancelReceived(currentRequestId))
            /\ store' = clearRequestState(store, currentRequestId)
            /\ UNCHANGED <<currentRequestId, pollingInterval, pollingStartTime, ui>>
       ELSE /\ stopPolling
            /\ ui' = "message"
            /\ UNCHANGED <<cancels, store>>
  /\ UNCHANGED <<runs, fill, sel, scan, now, pendingRequests, keepAliveInterval, req, gist, other, sweep, nextId, checks, pushes, popupOpen, strayTimers, clickPrep,
                 submitReplies, act, histVars>>

\* The CANCEL_REQUEST reply reaches cancelCurrentRequest.
CancelReply(i) ==
  /\ i \in 1..Len(cancels)
  /\ cancels[i].pc = "replied"
  /\ cancels' = RemoveAt(cancels, i)
  /\ IF cancels[i].live
       THEN /\ stopPolling
            /\ ui' = "message"
            /\ popupCancelled' = popupCancelled \cup {cancels[i].rid}
       ELSE UNCHANGED <<currentRequestId, pollingInterval, pollingStartTime, ui,
                        popupCancelled>>
  /\ UNCHANGED <<runs, fill, sel, scan, now, store, pendingRequests, keepAliveInterval, req, gist, other, sweep, nextId,
                 checks, pushes, popupOpen, strayTimers, clickPrep,
                 submitReplies, act, shown, results, writes, termAnswers, bgCancelled,
                 outcome>>

\* ---- activation
RECURSIVE SortedSeq(_)
SortedSeq(S) ==
  IF S = {} THEN <<>>
  ELSE LET m == CHOOSE x \in S : \A y \in S : x <= y
       IN <<m>> \o SortedSeq(S \ {m})

\* Object.keys(all).filter(k => k.startsWith('request_'))
PendingKeys(all) == SortedSeq({id \in ReqIds : all[id].status # "none"})

ActDone == [pc |-> "done", snap |-> [id \in ReqIds |-> NoRec], keys |-> <<>>]

\* initPopup: a new popup document; checkPendingRequest issues
\* chrome.storage.local.get(null), the SCORE_RESULT listener is registered.
PopupOpen ==
  /\ now \in EnvTimes
  /\ ~popupOpen
  /\ popupOpen' = TRUE
  /\ ui' = "message"
  /\ act' = [pc |-> "scan", snap |-> store, keys |-> PendingKeys(store)]
  /\ UNCHANGED <<runs, fill, sel, scan, now, bgVars, currentRequestId, pollingInterval, strayTimers,
                 pollingStartTime, clickPrep, submitReplies, histVars>>

\* checkPendingRequest: the loop over the keys of the snapshot, up to the
\* next await or return.
CheckPending ==
  /\ popupOpen
  /\ act.pc = "scan"
  /\ IF act.keys = <<>>
       THEN /\ act' = ActDone
            /\ UNCHANGED <<store, currentRequestId, pollingInterval, strayTimers,
                           pollingStartTime, ui, shown, results, other>>
     ELSE LET key == Head(act.keys)
              state == act.snap[key]
          IN IF state.status = "processing"
               THEN IF now - state.startTime < POPUP_REQUEST_TIMEOUT
                      THEN /\ currentRequestId' = key
                           /\ pollingStartTime' = state.startTime
                           /\ ui' = "loading"
                           /\ SetPollingInterval
                           /\ act' = ActDone
                           /\ UNCHANGED <<store, shown, results, other>>
                      ELSE /\ store' = clearRequestState(store, key)
                           /\ act' = [act EXCEPT !.keys = Tail(@)]
                           /\ UNCHANGED <<currentRequestId, pollingInterval,
                                          strayTimers, pollingStartTime, ui, shown,
                                          results, other>>
               ELSE /\ ui' = "message"
                    /\ shown' = Bump(shown, key)
                    /\ results' = Bump(results, key)
                    /\ store' = clearRequestState(store, key)
                    /\ other' = IF state.status = "complete" THEN ScoreStored(other)
                                ELSE other
                    /\ act' = ActDone
                    /\ UNCHANGED <<currentRequestId, pollingInterval, strayTimers,
                                   pollingStartTime>>
  /\ UNCHANGED <<runs, fill, sel, scan, now, pendingRequests, keepAliveInterval, req, gist, sweep, nextId, checks, cancels, pushes, popupOpen, clickPrep, submitReplies,
                 writes, termAnswers, bgCancelled, popupCancelled, outcome>>

\* The conversations of a popup that is gone: a reply already sent is lost,
\* a handler still running has no one to answer.
Orphaned(q) ==
  LET running == SelectSeq(q, LAMBDA c : c.pc # "replied")
  IN [i \in 1..Len(running) |-> [running[i] EXCEPT !.live = FALSE]]

\* The popup document is destroyed: its variables, timers and pending
\* callbacks are gone; the background's handlers run on.
PopupClose ==
  /\ now \in EnvTimes
  /\ popupOpen
  /\ popupOpen' = FALSE
  /\ currentRequestId' = 0
  /\ pollingInterval' = 0
  /\ strayTimers' = {}
  /\ pollingStartTime' = 0
  /\ ui' = "closed"
  /\ clickPrep' = 0
  /\ submitReplies' = {}
  /\ act' = ActDone
  /\ checks' = Orphaned(checks)
  /\ cancels' = Orphaned(cancels)
  /\ pushes' = {}
  /\ UNCHANGED <<runs, fill, sel, scan, now, store, pendingRequests, keepAliveInterval, req, gist, other, sweep, nextId,
                 histVars>>

\* ------------------------------------------------------------ time
\* A stored start time, a running call or a polling popup reads the clock.
ClockRead ==
  \/ \E id \in ReqIds : store[id].status = "processing" \/ CallOutstanding(id)
  \/ gist.pc # "idle"
  \/ currentRequestId # 0

\* A storage call or a message is awaiting its callback.
CallbackPending ==
  \/ \E id \in ReqIds : req[id].pc \in {"saving", "writing"}
  \/ checks # <<>>
  \/ cancels # <<>>
  \/ pushes # {}
  \/ submitReplies # {}
  \/ clickPrep > 0
  \/ act.pc = "scan"

\* The due times of the armed timers.
DueTimes ==
  {t \in {pollingInterval} : t # 0} \cup strayTimers
    \cup {req[id].deadline : id \in {i \in ReqIds : req[i].pc = "fetching"}}
    \cup {gist.deadline : g \in {h \in {gist} : h.pc = "fetching"}}

Min(S) == CHOOSE x \in S : \A y \in S : x <= y

\* Time passes, up to the next due timer or the next instant at which the
\* environment acts.  Storage and message callbacks return before the clock
\* moves on.
Tick ==
  /\ ClockRead
  /\ ~CallbackPending
  /\ now' = Min(DueTimes \cup {t \in EnvTimes : t > now} \cup {now + LongStep})
  /\ now' > now
  /\ now' <= MaxTime
  /\ UNCHANGED <<runs, fill, sel, scan, bgVars, popupVars, histVars>>

\* ------------------------------------------------------------ specification
Next ==
  \/ \E id \in ReqIds : SaveDone(id)
  \/ \E id \in ReqIds : FetchResponse(id)
  \/ \E id \in ReqIds : FetchError(id)
  \/ \E id \in ReqIds : FetchTimeout(id)
  \/ \E id \in ReqIds : BodyRead(id)
  \/ \E id \in ReqIds : BodyError(id)
  \/ \E id \in ReqIds : WriteDone(id)
  \/ \E i \in 1..MaxPolls : CheckGot(i)
  \/ \E i \in 1..MaxPolls : CheckCleared(i)
  \/ \E i \in 1..MaxCancels : CancelCleared(i)
  \/ Teardown
  \/ PopupOpen
  \/ CheckPending
  \/ PopupClose
  \/ ScoreClick
  \/ ClickSend
  \/ \E id \in ReqIds : SubmitReply(id)
  \/ PollTick
  \/ \E t \in strayTimers : StrayTick(t)
  \/ \E i \in 1..MaxPolls : PollReply(i)
  \/ \E p \in pushes : PushDeliver(p)
  \/ CancelClick
  \/ \E i \in 1..MaxCancels : CancelReply(i)
  \/ Tick

Spec == Init /\ [][Next]_vars

\* ---- the background alone
\* BG_RESUME_SCORE arrives from a sender that does not wait for the reply
\* (the content script's relay, or a popup closed after sending).
ResumeScoreArrives ==
  /\ now \in EnvTimes
  /\ nextId < MaxLeft + MaxReq
  /\ ResumeScoreReceived(nextId + 1)
  /\ UNCHANGED <<runs, fill, sel, scan, now, gist, other, sweep, checks, cancels, pushes, popupVars, shown, results,
                 termAnswers, bgCancelled, popupCancelled, outcome>>

BgNext ==
  \/ ResumeScoreArrives
  \/ \E id \in ReqIds : SaveDone(id)
  \/ \E id \in ReqIds : FetchResponse(id)
  \/ \E id \in ReqIds : FetchError(id)
  \/ \E id \in ReqIds : FetchTimeout(id)
  \/ \E id \in ReqIds : BodyRead(id)
  \/ \E id \in ReqIds : BodyError(id)
  \/ \E id \in ReqIds : WriteDone(id)
  \/ Teardown
  \/ Tick

\* Storage callbacks return, armed timers fire and time passes; the backend
\* and the host owe nothing.
BgFairSpec ==
  /\ Init
  /\ [][BgNext]_vars
  /\ WF_vars(Tick)
  /\ \A id \in ReqIds : WF_vars(SaveDone(id))
  /\ \A id \in ReqIds : WF_vars(FetchTimeout(id))
  /\ \A id \in ReqIds : WF_vars(WriteDone(id))

\* CANCEL_REQUEST arrives for an issued id from a popup that does not wait
\* for the reply.
CancelArrives ==
  /\ now \in EnvTimes
  /\ Len(cancels) < MaxCancels
  /\ \E id \in 1..nextId :
       /\ cancels' = Append(cancels, [CancelReceived(id) EXCEPT !.live = FALSE])
       /\ store' = clearRequestState(store, id)
  /\ UNCHANGED <<runs, fill, sel, scan, now, pendingRequests, keepAliveInterval, req, gist, other, sweep, nextId, checks, pushes, popupVars, histVars>>

\* The background with its backend calls of both kinds and cancel messages,
\* no popup modelled.
BgAllNext ==
  \/ BgNext
  \/ GistReceived
  \/ GistResponse
  \/ GistReturn
  \/ GistTimeout
  \/ CancelArrives
  \/ \E i \in 1..MaxCancels : CancelCleared(i)

BgSpec == Init /\ [][BgAllNext]_vars

\* ---- the background and its polls
\* CHECK_REQUEST_STATUS arrives for an issued id.
CheckArrives ==
  /\ now \in EnvTimes
  /\ Len(checks) < MaxPolls
  /\ \E id \in 1..nextId : checks' = Append(checks, CheckReceived(id))
  /\ UNCHANGED <<runs, fill, sel, scan, now, store, other, pendingRequests, keepAliveInterval, req, gist, sweep, nextId, cancels, pushes, popupVars, histVars>>

\* The sender of a poll takes its reply.
CheckAnswered ==
  /\ \E i \in 1..Len(checks) :
       /\ checks[i].pc = "replied"
       /\ checks' = RemoveAt(checks, i)
  /\ UNCHANGED <<runs, fill, sel, scan, now, store, other, pendingRequests, keepAliveInterval, req, gist, sweep, nextId, cancels, pushes, popupVars, histVars>>

\* The background, torn down and re-created by the host, and polled; nothing
\* is cancelled and no popup removes records.
BgPollNext ==
  \/ BgNext
  \/ CheckArrives
  \/ \E i \in 1..MaxPolls : CheckGot(i)
  \/ \E i \in 1..MaxPolls : CheckCleared(i)
  \/ CheckAnswered

BgPollSpec == Init /\ [][BgPollNext]_vars

\* ---- the popup polling, the push lost
\* chrome.runtime.sendMessage of SCORE_RESULT reaches no listener.
PushLost ==
  /\ \E p \in pushes : pushes' = pushes \ {p}
  /\ UNCHANGED <<runs, fill, sel, scan, now, store, other, pendingRequests, keepAliveInterval, req, gist, sweep, nextId, checks, cancels, popupVars, histVars>>

\* One popup that stays open and cancels nothing, the background context is
\* kept; every SCORE_RESULT is lost.
PollNext ==
  \/ \E id \in ReqIds : SaveDone(id)
  \/ \E id \in ReqIds : FetchResponse(id)
  \/ \E id \in ReqIds : FetchError(id)
  \/ \E id \in ReqIds : FetchTimeout(id)
  \/ \E id \in ReqIds : BodyRead(id)
  \/ \E id \in ReqIds : BodyError(id)
  \/ \E id \in ReqIds : WriteDone(id)
  \/ \E i \in 1..MaxPolls : CheckGot(i)
  \/ \E i \in 1..MaxPolls : CheckCleared(i)
  \/ PopupOpen
  \/ CheckPending
  \/ ScoreClick
  \/ ClickSend
  \/ \E id \in ReqIds : SubmitReply(id)
  \/ PollTick
  \/ \E t \in strayTimers : StrayTick(t)
  \/ \E i \in 1..MaxPolls : PollReply(i)
  \/ PushLost
  \/ Tick

\* Storage and message callbacks return, armed timers fire and time passes;
\* the user, the backend and the host owe nothing.
PollFairSpec ==
  /\ Init
  /\ [][PollNext]_vars
  /\ WF_vars(Tick)
  /\ WF_vars(PollTick)
  /\ WF_vars(\E t \in strayTimers : StrayTick(t))
  /\ WF_vars(CheckPending)
  /\ WF_vars(ClickSend)
  /\ WF_vars(PushLost)
  /\ \A id \in ReqIds : WF_vars(SubmitReply(id))
  /\ \A id \in ReqIds : WF_vars(SaveDone(id))
  /\ \A id \in ReqIds : WF_vars(FetchTimeout(id))
  /\ \A id \in ReqIds : WF_vars(WriteDone(id))
  /\ \A i \in 1..MaxPolls : WF_vars(CheckGot(i))
  /\ \A i \in 1..MaxPolls : WF_vars(CheckCleared(i))
  /\ \A i \in 1..MaxPolls : WF_vars(PollReply(i))

\* ---- the message handlers and their replies
CanStart(h) == runs[h].pc \in {"idle", "done"}

\* BG_GENERATE_GISTS: startKeepAlive, fetchWithTimeout awaited; return true.
GistsStart ==
  /\ CanStart("BG_GENERATE_GISTS")
  /\ runs' = [runs EXCEPT !["BG_GENERATE_GISTS"] = Started("fetch")]
  /\ UNCHANGED <<now, bgVars, popupVars, histVars, fill, sel, scan>>

\* fetchWithTimeout returned a result that is ok or not, or the try block
\* raised: one sendResponse each.
GistsReturn ==
  /\ runs["BG_GENERATE_GISTS"].pc = "fetch"
  /\ \E p \in {"ok", "not_ok", "catch"} :
       runs' = [runs EXCEPT !["BG_GENERATE_GISTS"] = sendResponse(@, p)]
  /\ UNCHANGED <<now, bgVars, popupVars, histVars, fill, sel, scan>>

\* BG_RESUME_SCORE: handleResumeScoreRequest is started and not awaited,
\* sendResponse, return true.
ResumeScoreReply ==
  /\ CanStart("BG_RESUME_SCORE")
  /\ runs' = [runs EXCEPT !["BG_RESUME_SCORE"] = sendResponse(Started("sync"), "started")]
  /\ UNCHANGED <<now, bgVars, popupVars, histVars, fill, sel, scan>>

\* CHECK_REQUEST_STATUS: getRequestState awaited; return true.
CheckStart ==
  /\ CanStart("CHECK_REQUEST_STATUS")
  /\ runs' = [runs EXCEPT !["CHECK_REQUEST_STATUS"] = Started("get")]
  /\ UNCHANGED <<now, bgVars, popupVars, histVars, fill, sel, scan>>

\* getRequestState returned: no state (pending or not), complete, error, or
\* any other state.  The terminal ones await clearRequestState first.
CheckReturn ==
  /\ runs["CHECK_REQUEST_STATUS"].pc = "get"
  /\ \E p \in {"pending", "not_found", "complete", "error", "processing"} :
       runs' = [runs EXCEPT !["CHECK_REQUEST_STATUS"] =
                  IF p \in {"complete", "error"}
                    THEN [@ EXCEPT !.pc = "clear", !.path = p]
                    ELSE sendResponse(@, p)]
  /\ UNCHANGED <<now, bgVars, popupVars, histVars, fill, sel, scan>>

\* clearRequestState returned (it catches its own errors).
CheckClearReturn ==
  /\ runs["CHECK_REQUEST_STATUS"].pc = "clear"
  /\ runs' = [runs EXCEPT !["CHECK_REQUEST_STATUS"] = sendResponse(@, @.path)]
  /\ UNCHANGED <<now, bgVars, popupVars, histVars, fill, sel, scan>>

\* CANCEL_REQUEST: clearRequestState awaited; return true.
CancelStart ==
  /\ CanStart("CANCEL_REQUEST")
  /\ runs' = [runs EXCEPT !["CANCEL_REQUEST"] = Started("clear")]
  /\ UNCHANGED <<now, bgVars, popupVars, histVars, fill, sel, scan>>

\* clearRequestState returned: pendingRequests.delete, stopKeepAlive,
\* sendResponse.
CancelReturn ==
  /\ runs["CANCEL_REQUEST"].pc = "clear"
  /\ runs' = [runs EXCEPT !["CANCEL_REQUEST"] = sendResponse(@, "cleared")]
  /\ UNCHANGED <<now, bgVars, popupVars, histVars, fill, sel, scan>>

\* RESUME_SCORE in the page agent: BG_RESUME_SCORE is sent on; return true.
RelayStart ==
  /\ CanStart("RESUME_SCORE")
  /\ runs' = [runs EXCEPT !["RESUME_SCORE"] = Started("relay")]
  /\ UNCHANGED <<now, bgVars, popupVars, histVars, fill, sel, scan>>

\* The relay's callback runs, with the background's reply or, the background
\* failing, with none: sendResponse(resp).
RelayCallback ==
  /\ runs["RESUME_SCORE"].pc = "relay"
  /\ \E p \in {"resp", "undefined"} :
       runs' = [runs EXCEPT !["RESUME_SCORE"] = sendResponse(@, p)]
  /\ UNCHANGED <<now, bgVars, popupVars, histVars, fill, sel, scan>>

\* AUTOFILL up to its first await: extractFields raises, finds no field, or
\* finds fields and BG_GENERATE_GISTS is sent; return true.
AutofillStart ==
  /\ CanStart("AUTOFILL")
  /\ \E p \in {"catch", "no_fields", "fields"} :
       runs' = [runs EXCEPT !["AUTOFILL"] =
                  IF p = "fields" THEN Started("gists")
                  ELSE sendResponse(Started("sync"), p)]
  /\ UNCHANGED <<now, bgVars, popupVars, histVars, fill, sel, scan>>

\* As AutofillGists, but the branch without gists does not return.
AutofillGistsNoReturn ==
  /\ runs["AUTOFILL"].pc = "gists"
  /\ \E p \in {"catch", "no_gists", "no_gists_catch", "gists"} :
       runs' = [runs EXCEPT !["AUTOFILL"] =
                  IF p = "gists" THEN [@ EXCEPT !.pc = "fill"]
                  ELSE IF p = "no_gists"
                    THEN [sendResponse(@, p) EXCEPT !.pc = "fill"]
                  ELSE sendResponse(@, p)]
  /\ UNCHANGED <<now, bgVars, popupVars, histVars, fill, sel, scan>>

\* The BG_GENERATE_GISTS message returned: rejected (caught), without gists
\* (fallbackFill, which may raise into the catch), or with gists and
\* autofillFields is awaited.
AutofillGists ==
  /\ runs["AUTOFILL"].pc = "gists"
  /\ \E p \in {"catch", "no_gists", "no_gists_catch", "gists"} :
       runs' = [runs EXCEPT !["AUTOFILL"] =
                  IF p = "gists" THEN [@ EXCEPT !.pc = "fill"]
                  ELSE sendResponse(@, p)]
  /\ UNCHANGED <<now, bgVars, popupVars, histVars, fill, sel, scan>>

\* autofillFields returned true or false, or raised.
AutofillFilled ==
  /\ runs["AUTOFILL"].pc = "fill"
  /\ \E p \in {"autofill_complete", "autofill_partial", "catch"} :
       runs' = [runs EXCEPT !["AUTOFILL"] = sendResponse(@, p)]
  /\ UNCHANGED <<now, bgVars, popupVars, histVars, fill, sel, scan>>

ReplyNext ==
  \/ GistsStart
  \/ GistsReturn
  \/ ResumeScoreReply
  \/ CheckStart
  \/ CheckReturn
  \/ CheckClearReturn
  \/ CancelStart
  \/ CancelReturn
  \/ RelayStart
  \/ RelayCallback
  \/ AutofillStart
  \/ AutofillGists
  \/ AutofillFilled

ReplySpec == Init /\ [][ReplyNext]_vars

\* ---- the page agent filling the form
\* The page agent calls autofillFields with up to MaxFields field
\* descriptors; the popup is closed and the background idle.
FillInit ==
  /\ fill \in {NewFill(fields, answersMap, parsed_resume, resumeFile) :
                 fields \in UNION {[1..n -> FieldPool] : n \in 0..MaxFields},
                 answersMap \in AnswerPool,
                 parsed_resume \in ResumePool,
                 resumeFile \in FilePool}
  /\ runs = [h \in Handlers |-> IdleRun]
  /\ sel = IdleSel
  /\ scan = IdleScan
  /\ now = 0
  /\ store = [id \in ReqIds |-> NoRec]
  /\ req = [id \in ReqIds |-> IdleReq]
  /\ writes = [id \in ReqIds |-> <<>>]
  /\ pendingRequests = {}
  /\ keepAliveInterval = FALSE
  /\ gist = IdleGist
  /\ other = [k \in OtherKeys |-> 0]
  /\ sweep = IdleSweep
  /\ nextId = MaxLeft
  /\ checks = <<>>
  /\ cancels = <<>>
  /\ pushes = {}
  /\ popupOpen = FALSE
  /\ currentRequestId = 0
  /\ pollingInterval = 0
  /\ strayTimers = {}
  /\ pollingStartTime = 0
  /\ ui = "closed"
  /\ clickPrep = 0
  /\ submitReplies = {}
  /\ act = ActDone
  /\ shown = [id \in ReqIds |-> 0]
  /\ results = [id \in ReqIds |-> 0]
  /\ termAnswers = [id \in ReqIds |-> 0]
  /\ bgCancelled = {}
  /\ popupCancelled = {}
  /\ outcome = [id \in ReqIds |-> [how |-> "none", body |-> ""]]

FillNext == FillField \/ FillReturn

FillSpec == FillInit /\ [][FillNext]_vars

\* ---- the page agent applying an answer to a select
\* The popup is closed, the background idle, no handler running.
RestIdle ==
  /\ runs = [h \in Handlers |-> IdleRun]
  /\ now = 0
  /\ store = [id \in ReqIds |-> NoRec]
  /\ req = [id \in ReqIds |-> IdleReq]
  /\ writes = [id \in ReqIds |-> <<>>]
  /\ pendingRequests = {}
  /\ keepAliveInterval = FALSE
  /\ gist = IdleGist
  /\ other = [k \in OtherKeys |-> 0]
  /\ sweep = IdleSweep
  /\ nextId = MaxLeft
  /\ checks = <<>>
  /\ cancels = <<>>
  /\ pushes = {}
  /\ popupOpen = FALSE
  /\ currentRequestId = 0
  /\ pollingInterval = 0
  /\ strayTimers = {}
  /\ pollingStartTime = 0
  /\ ui = "closed"
  /\ clickPrep = 0
  /\ submitReplies = {}
  /\ act = ActDone
  /\ shown = [id \in ReqIds |-> 0]
  /\ results = [id \in ReqIds |-> 0]
  /\ termAnswers = [id \in ReqIds |-> 0]
  /\ bgCancelled = {}
  /\ popupCancelled = {}
  /\ outcome = [id \in ReqIds |-> [how |-> "none", body |-> ""]]

\* setValue is called with an answer on a select control.
SelectInit ==
  /\ sel \in {NewSel(options, val) : options \in OptionPool, val \in ValPool}
  /\ fill = IdleFill
  /\ scan = IdleScan
  /\ RestIdle

SelectNext == SetValueOnSelect

SelectSpec == SelectInit /\ [][SelectNext]_vars

\* ---- the page agent scanning the document
\* extractFields is called on a page of the pool.
ScanInit ==
  /\ scan \in {NewScan(doc) : doc \in PagePool}
  /\ fill = IdleFill
  /\ sel = IdleSel
  /\ RestIdle

ScanNext == ExtractFieldsCall \/ PageHidesControl

ScanSpec == ScanInit /\ [][ScanNext]_vars

\* ---- the page agent resolving descriptors to elements
\* extractFields is called on a page of items, then findElementForField on
\* descriptors it returned.
FindInit ==
  /\ scan \in {NewScan(doc) : doc \in ItemPages}
  /\ fill = IdleFill
  /\ sel = IdleSel
  /\ RestIdle

FindNext == ExtractFieldsCall \/ FindElementCall

FindSpec == FindInit /\ [][FindNext]_vars

\* ---- the page agent handling an AUTOFILL message
\* One AUTOFILL message arrives on a page: the form, the form without its
\* last input, the form not displayed, or a page without controls.
AutofillInit ==
  /\ scan \in {NewScan(doc) : doc \in {FormDocument, PartDocument, HiddenDocument, EmptyDocument}}
  /\ fill \in {Message(parsed_resume, resume_file) :
                 parsed_resume \in ResumePool, resume_file \in FilePool}
  /\ sel = IdleSel
  /\ RestIdle

AutofillNext ==
  \/ AutofillOnPage
  \/ GistsReturn
  \/ AutofillGot
  \/ FillField
  \/ FillReturn
  \/ AutofillReplies

AutofillSpec == AutofillInit /\ [][AutofillNext]_vars

\* ---- the popup activated on what earlier runs left in storage
\* A record an earlier run left: none; a processing record of a background
\* context that was killed, started at 0 or at LongStep; a complete or error
\* record whose result reached the popup by push or not at all (the push
\* listener removes nothing).
LeftRecords ==
  {NoRec, Rec("processing", 0, ""), Rec("processing", LongStep, ""),
   Rec("complete", 0, "ok"), Rec("error", 0, "error")}

\* The popup is closed and no handler runs; the ids were issued in the order
\* of time; the popup is opened shortly before or at the deadline of a
\* record started at 0.
ActivationInit ==
  /\ now \in {2 * LongStep, REQUEST_TIMEOUT}
  /\ store \in [ReqIds -> LeftRecords]
  /\ \A i, j \in ReqIds :
       (i < j /\ store[i].status = "processing" /\ store[j].status = "processing")
         => store[i].startTime <= store[j].startTime
  /\ req = [id \in ReqIds |->
              IF store[id].status = "none" THEN IdleReq
              ELSE [IdleReq EXCEPT !.pc = IF store[id].status = "processing"
                                            THEN "dead" ELSE "done"]]
  /\ writes = [id \in ReqIds |-> <<>>]
  /\ nextId = MaxLeft + MaxReq
  /\ runs = [h \in Handlers |-> IdleRun]
  /\ pendingRequests = {}
  /\ keepAliveInterval = FALSE
  /\ gist = IdleGist
  /\ other = [k \in OtherKeys |-> 0]
  /\ sweep = IdleSweep
  /\ checks = <<>>
  /\ cancels = <<>>
  /\ pushes = {}
  /\ popupOpen = FALSE
  /\ currentRequestId = 0
  /\ pollingInterval = 0
  /\ strayTimers = {}
  /\ pollingStartTime = 0
  /\ ui = "closed"
  /\ clickPrep = 0
  /\ submitReplies = {}
  /\ act = ActDone
  /\ shown = [id \in ReqIds |-> 0]
  /\ results = [id \in ReqIds |-> 0]
  /\ termAnswers = [id \in ReqIds |-> 0]
  /\ bgCancelled = {}
  /\ popupCancelled = {}
  /\ outcome = [id \in ReqIds |-> [how |-> "none", body |-> ""]]
  /\ fill = IdleFill
  /\ sel = IdleSel
  /\ scan = IdleScan

ActivationNext == PopupOpen \/ CheckPending \/ PopupClose

ActivationSpec == ActivationInit /\ [][ActivationNext]_vars

\* ---- startup of the browser
\* As RequestKeys, but filtering on a misspelt prefix: nothing matches.
RequestKeysWrongPrefix(all) == {}

\* Object.keys(all).filter(k => k.startsWith('request_'))
RequestKeys(all) == {id \in ReqIds : all[id].status # "none"}

\* chrome.storage.local.remove(keys)
RemoveKeys(s, keys) == [id \in ReqIds |-> IF id \in keys THEN NoRec ELSE s[id]]

\* The onStartup listener up to its first await: chrome.storage.local.get(null)
\* is issued.  The event is the first one of a background context.
StartupFired ==
  /\ now = 0
  /\ sweep.pc = "idle"
  /\ nextId = MaxLeft
  /\ \A id \in ReqIds : req[id].pc \in {"idle", "dead"}
  /\ sweep' = [pc |-> "get", keys |-> RequestKeys(store),
               had |-> {id \in ReqIds : store[id] # NoRec}]
  /\ UNCHANGED <<runs, fill, sel, scan, now, store, other, pendingRequests, keepAliveInterval, req, gist, nextId, checks, cancels, pushes, popupVars, histVars>>

\* get(null) returned: the request keys are handed to remove, if there are any.
StartupGot ==
  /\ sweep.pc = "get"
  /\ IF sweep.keys # {}
       THEN /\ store' = RemoveKeys(store, sweep.keys)
            /\ sweep' = [sweep EXCEPT !.pc = "remove"]
       ELSE /\ store' = store
            /\ sweep' = [sweep EXCEPT !.pc = "done"]
  /\ UNCHANGED <<runs, fill, sel, scan, now, other, pendingRequests, keepAliveInterval, req, gist, nextId, checks, cancels, pushes, popupVars, histVars>>

\* remove returned: the handler has completed.
StartupRemoved ==
  /\ sweep.pc = "remove"
  /\ sweep' = [sweep EXCEPT !.pc = "done"]
  /\ UNCHANGED <<runs, fill, sel, scan, now, store, other, pendingRequests, keepAliveInterval, req, gist, nextId, checks, cancels, pushes, popupVars, histVars>>

\* The keep-alive interval's callback: keep_alive_ping is written.
KeepAlivePing ==
  /\ keepAliveInterval
  /\ other' = [other EXCEPT !["keep_alive_ping"] = 1]
  /\ UNCHANGED <<runs, fill, sel, scan, now, store, pendingRequests, keepAliveInterval, req, gist, sweep, nextId, checks, cancels, pushes, popupVars, histVars>>

\* The popup writes or removes one of its own keys (resume upload, stored
\* score).
PopupKeyWritten ==
  /\ now \in EnvTimes
  /\ \E k \in OtherKeys \ {"keep_alive_ping"} :
       other' = [other EXCEPT ![k] = 1 - @]
  /\ UNCHANGED <<runs, fill, sel, scan, now, store, pendingRequests, keepAliveInterval, req, gist, sweep, nextId, checks, cancels, pushes, popupVars, histVars>>

StartupNext ==
  \/ BgNext
  \/ StartupFired
  \/ StartupGot
  \/ StartupRemoved
  \/ KeepAlivePing
  \/ PopupKeyWritten

StartupSpec == Init /\ [][StartupNext]_vars

\* ============================================================ claims
\* C1: once the background has handled CANCEL_REQUEST for an id, every
\* CHECK_REQUEST_STATUS it receives afterwards for that id is answered
\* not_found, whatever the backend call does.
C1_PollAfterCancelNotFound ==
  \A i \in 1..Len(checks) :
    (checks[i].afterCancel /\ checks[i].pc = "replied")
      => checks[i].reply = "not_found"

\* C2: once the popup has cancelled a request, no popup displays that
\* request's score or error, now or on a later activation.
C2_CancelledResultDiscarded ==
  [][\A id \in popupCancelled : results'[id] = results[id]]_vars

\* C3: the popup displays the terminal outcome of a request at most once,
\* counting poll replies, the push, the client-side timeout and the
\* pending-record check together.
C3_OutcomeShownAtMostOnce == \A id \in ReqIds : shown[id] <= 1

\* C4: when the popup consumes a terminal result through the SCORE_RESULT
\* push, the request_<id> record is removed from storage.
C4_PushConsumptionDeletesRecord ==
  [][\A p \in pushes :
       (p \notin pushes' /\ results'[p.rid] > results[p.rid])
         => store'[p.rid].status = "none"]_vars

\* C5: the terminal status of a request that was not cancelled is answered
\* to one poll only; the polls after it are answered not_found.
C5_TerminalAnsweredOnce ==
  \A id \in ReqIds : id \notin bgCancelled => termAnswers[id] <= 1

\* C6: the BG_RESUME_SCORE reply is sent while the call is still outstanding,
\* for an id that had no record before, with the processing record handed to
\* storage; and every CHECK_REQUEST_STATUS answered while the call is
\* outstanding and the request is not cancelled is answered processing.
C6_ProcessingUntilFinished ==
  /\ [](\A i \in 1..Len(checks) : checks[i].win => checks[i].reply = "processing")
  /\ [][\A id \in submitReplies' \ submitReplies :
          /\ writes[id] = <<>>
          /\ id \notin pendingRequests
          /\ id \in pendingRequests'
          /\ req'[id].pc = "saving"
          /\ store'[id].status = "processing"]_vars

\* A poll was answered while the call was outstanding and not cancelled,
\* although the handler had read no record.
C6_Witness ==
  \E i \in 1..Len(checks) :
    checks[i].win /\ checks[i].pc = "replied" /\ checks[i].st.status = "none"

StatusesOf(w) == [i \in 1..Len(w) |-> w[i][1]]

\* C7: the states written to request_<id> are processing first and then at
\* most one of complete and error; nothing is written after a terminal state.
C7_StatusMonotonic ==
  \A id \in ReqIds :
    StatusesOf(writes[id]) \in {<<>>, <<"processing">>,
                                <<"processing", "complete">>,
                                <<"processing", "error">>}

\* A request has its terminal state written and its handler has returned.
C7_Witness ==
  \E id \in ReqIds : Len(writes[id]) = 2 /\ req[id].pc = "done"

\* C8: a request whose backend call finished has made exactly one terminal
\* write: complete with the body if the response was 2xx and its body was
\* read, error with the body (or Unknown error) for a non-2xx response, error
\* with the thrown message for a thrown error, error with the timed-out
\* message for the timeout.
C8_OneTerminalWrite ==
  \A id \in ReqIds :
    req[id].pc \in {"writing", "done"} =>
      /\ Len(writes[id]) = 2
      /\ outcome[id].how \in {"ok", "http_error", "threw", "timeout"}
      /\ (writes[id][2][1] = "complete") <=> (outcome[id].how = "ok")
      /\ writes[id][2] =
           CASE outcome[id].how = "ok" -> <<"complete", outcome[id].body>>
             [] outcome[id].how = "http_error" ->
                  <<"error", JsOr(outcome[id].body, "Unknown error")>>
             [] outcome[id].how = "threw" -> <<"error", "fetch failed">>
             [] outcome[id].how = "timeout" -> <<"error", "timed out">>

\* A non-2xx response with a body has been written as an error.
C8_Witness ==
  \E id \in ReqIds :
    /\ req[id].pc = "done"
    /\ outcome[id] = [how |-> "http_error", body |-> "detail"]
    /\ writes[id][2] = <<"error", "detail">>

\* C9: a timer that fires during the call ends it with the timed-out error;
\* and while the background lives, a processing record whose call is
\* outstanding (and whose two minutes end before the clock stops) does not
\* stay processing forever.
C9_NoRecordProcessingForever ==
  /\ [](\A id \in ReqIds : outcome[id].how = "timeout" =>
          writes[id][2] = <<"error", "timed out">>)
  /\ \A id \in ReqIds :
       (/\ store[id].status = "processing"
        /\ CallOutstanding(id)
        /\ store[id].startTime + REQUEST_TIMEOUT <= MaxTime)
         ~> (store[id].status # "processing" \/ ~CallOutstanding(id))

GistOutstanding == gist.pc \in {"fetching", "reading"}

\* C11: whenever a backend call (/resume-score or /get-gist) is outstanding
\* in the background context, the keep-alive timer is running.
C11_KeepAliveWhileCallOutstanding ==
  ((\E id \in ReqIds : CallOutstanding(id)) \/ GistOutstanding)
    => keepAliveInterval

\* handleResumeScoreRequest is running for id: from its start to its finally.
HandlerRunning(id) == req[id].pc \in {"saving", "fetching", "reading", "writing"}

C13_EveryRecordHandled ==
  [][(act.pc = "scan" /\ act'.pc = "done" /\ popupOpen')
       => \A id \in ReqIds :
            /\ act.snap[id].status \in {"complete", "error"}
                 => store'[id].status = "none"
            /\ (/\ act.snap[id].status = "processing"
                /\ now - act.snap[id].startTime < POPUP_REQUEST_TIMEOUT)
                 => currentRequestId' = id]_vars

\* The step in which the onStartup handler completes.
StartupCompletes == sweep.pc \in {"get", "remove"} /\ sweep'.pc = "done"

\* C14 as stated: when the onStartup handler has completed, storage holds no
\* request_ key, and no step of the handler changes another key.
C14_NoRequestKeyAfterStartup ==
  /\ [][StartupCompletes => \A id \in ReqIds : store'[id].status = "none"]_vars
  /\ [][(StartupFired \/ StartupGot \/ StartupRemoved) => other' = other]_vars

\* C14, amended: when the onStartup handler has completed, every request_
\* key that storage held when the handler read it is gone (a record written
\* after the read stays), and no step of the handler changes another key.
C14_StartupRemovesRecordsRead ==
  /\ [][StartupCompletes => \A id \in sweep.had : store'[id].status = "none"]_vars
  /\ [][(StartupFired \/ StartupGot \/ StartupRemoved) => other' = other]_vars

\* The handler has completed after removing a record, and the other keys
\* that are present are still there.
C14_Witness ==
  /\ sweep.pc = "done"
  /\ sweep.had # {}
  /\ \A id \in sweep.had : store[id] = NoRec
  /\ other["parsed_resume"] = 1
  /\ other["keep_alive_ping"] = 1

\* The background context was torn down during the backend call of id: only
\* the processing state had been written.
TornDownDuringCall(id) == req[id].pc = "dead" /\ Len(writes[id]) = 1

\* C15: a request whose background context was torn down during the call
\* still has its processing record in storage, and a CHECK_REQUEST_STATUS
\* answered for it afterwards (by a context that holds nothing of it in
\* memory) is answered processing.
C15_ProcessingRecordSurvivesTeardown ==
  /\ \A id \in ReqIds :
       TornDownDuringCall(id) => store[id].status = "processing"
  /\ \A i \in 1..Len(checks) :
       (/\ checks[i].pc = "replied"
        /\ ~checks[i].win
        /\ TornDownDuringCall(checks[i].rid))
         => checks[i].reply = "processing"

\* A request submitted in this run was torn down during its call and a poll
\* for it was then answered processing, with pendingRequests empty.
C15_Witness ==
  \E i \in 1..Len(checks) :
    /\ checks[i].rid > MaxLeft
    /\ checks[i].pc = "replied"
    /\ ~checks[i].win
    /\ TornDownDuringCall(checks[i].rid)
    /\ checks[i].reply = "processing"
    /\ pendingRequests = {}

\* C16: when handleResumeScoreRequest has returned and the SCORE_RESULT push
\* is attempted, the terminal state of the request had already been handed
\* to storage; the attempt leaves storage as it is, and with no popup
\* listening nothing is delivered and the handler still completes.
C16_TerminalWrittenBeforePush ==
  [][\A id \in ReqIds :
       (req[id].pc = "writing" /\ req'[id].pc = "done")
         => /\ Len(writes[id]) = 2
            /\ writes[id][2][1] \in {"complete", "error"}
            /\ store' = store
            /\ writes' = writes
            /\ ~popupOpen => (pushes' = pushes /\ id \notin pendingRequests')]_vars

\* A request finished with no popup open: its terminal record is stored as
\* written and no push for it exists.
C16_Witness ==
  \E id \in ReqIds :
    /\ id > MaxLeft
    /\ req[id].pc = "done"
    /\ ~popupOpen
    /\ Len(writes[id]) = 2
    /\ store[id].status = writes[id][2][1]
    /\ store[id].status \in {"complete", "error"}
    /\ \A p \in pushes : p.rid # id

\* The record of id is terminal while the popup, its activation over, polls
\* id before its deadline.
TerminalWhilePolling(id) ==
  /\ store[id].status \in {"complete", "error"}
  /\ act.pc = "done"
  /\ currentRequestId = id
  /\ now - pollingStartTime < POPUP_REQUEST_TIMEOUT

\* C17: with every push lost, a record that becomes terminal while the popup
\* polls its id before the client deadline is eventually displayed by the
\* popup (a poll's reply carried it) and the popup has stopped polling it.
C17_PollingDeliversWithoutPush ==
  \A id \in ReqIds :
    TerminalWhilePolling(id) ~> (results[id] > 0 /\ currentRequestId # id)

\* C18: every handler that starts asynchronous work has returned true once it
\* started, never calls sendResponse twice, and has called it exactly once
\* when it ends, on its error paths as on the others.
C18_ExactlyOneReply ==
  \A h \in Handlers :
    /\ runs[h].pc # "idle" => runs[h].open
    /\ runs[h].replies <= 1
    /\ runs[h].pc = "done" => runs[h].replies = 1

\* Every handler has ended with one reply, the page agent's AUTOFILL and the
\* background's BG_GENERATE_GISTS through their catch blocks.
C18_Witness ==
  /\ \A h \in Handlers : runs[h].pc = "done" /\ runs[h].replies = 1
  /\ runs["AUTOFILL"].path = "no_gists_catch"
  /\ runs["BG_GENERATE_GISTS"].path = "catch"
  /\ runs["CHECK_REQUEST_STATUS"].path = "error"

\* C19: autofillFields returns true exactly when the value application of at
\* least one field succeeded (a value set or the file attached), in the main
\* pass or in the email/phone fallback, and never counts a field whose value
\* application reported failure.
C19_TrueIffSomeFieldFilled ==
  fill.pc = "done" =>
    /\ (fill.ret = "true") <=> (fill.filled # {})
    /\ fill.miscounted = 0

\* C20: with an answers map given, a field that cannot be resolved or
\* applied, or whose resolution raises, does not end the main loop: when
\* autofillFields has returned, the loop has reached every field.
C20_FailureNeverAborts ==
  (fill.pc = "done" /\ ~fill.answersMap.null) =>
    fill.attempted = 1..Len(fill.fields)

\* C21: autofillFields never throws or rejects to its caller: a call that has
\* ended has returned true or false, and a call in which an error was raised
\* (a missing answer set, a selector that does not parse) has ended with
\* false.
C21_AlwaysBooleanResult ==
  /\ fill.pc = "done" => fill.ret \in {"true", "false"}
  /\ fill.pc # "done" => fill.ret = "none"
  /\ fill.raised => (fill.pc = "done" /\ fill.ret = "false")

\* A call with an answer set given ended in its outer catch, after the main
\* loop had applied a value.
C21_Witness ==
  /\ fill.pc = "done"
  /\ fill.raised
  /\ ~fill.answersMap.null
  /\ fill.filled # {}
  /\ fill.ret = "false"

C24_SevenSelectsFiveToSeven ==
  (sel.pc = "done" /\ sel.el.options = YearsOptions /\ sel.val = <<"7">>) =>
    /\ sel.ret = "true"
    /\ sel.value = <<"5", "-", "7", " ", "y", "e", "a", "r", "s">>
    /\ sel.value # <<"7", "+", " ", "y", "e", "a", "r", "s">>
    /\ sel.changes = 1

\* The call for the answer "7" on that select has returned with "5-7 years"
\* selected, the first option whose text contains the answer.
C24_Witness ==
  /\ sel.pc = "done"
  /\ sel.el.options = YearsOptions
  /\ sel.val = <<"7">>
  /\ sel.value = YearsOptions[3].value
  /\ YearsOptions[3].text = <<"5", "-", "7", " ", "y", "e", "a", "r", "s">>
  /\ ExactAccepts(YearsOptions[3], sel.val)
  /\ \A x \in 1..2 : ~ExactAccepts(YearsOptions[x], sel.val)

\* C25: for a select with the options "USA", "Canada", "UK" and the answer
\* "United States of America", value application selects "USA" and reports
\* success, so that the field counts as filled.
C25_UnitedStatesSelectsUSA ==
  (/\ sel.pc = "done"
   /\ sel.el.options = CountryOptions
   /\ sel.val = <<"U", "n", "i", "t", "e", "d", " ", "S", "t", "a", "t", "e", "s", " ", "o", "f", " ", "A", "m", "e", "r", "i", "c", "a">>) =>
    /\ sel.ret = "true"
    /\ sel.value = <<"U", "S", "A">>

\* The options of the list that strategy j accepts for the answer val.
AcceptedBy(j, options, val) ==
  {x \in 1..Len(options) :
     CASE j = 1 -> ExactAccepts(options[x], val)
       [] j = 2 -> RangeAccepts(options[x], val)
       [] j = 3 -> WordsAccepts(options[x], val)
       [] j = 4 -> PartialAccepts(options[x], val)}

VisibleControls(doc) ==
  {n \in 1..Len(doc) : IsControl(doc[n]) /\ IsVisible(doc[n])}

\* The label of control el as the priority order describes it: the text of
\* the first strategy whose text is not empty, the ARIA label attribute
\* going before the placeholder, and the sentinel when there is none.
PriorityLabel(doc, el) ==
  LET s == Strategies(doc, el)
      fifth == IF trim(doc[el].aria) # <<>> THEN Found(trim(doc[el].aria))
               ELSE IF trim(doc[el].placeholder) # <<>>
                 THEN Found(trim(doc[el].placeholder))
               ELSE NotFound
      t == [s EXCEPT ![5] = fifth]
      j == First({x \in 1..Len(t) : t[x].found /\ t[x].text # <<>>})
  IN IF j = 0 THEN NoLabel ELSE t[j].text

\* C27: the label extractFields reports for a visible control is the result
\* of the highest-priority strategy that yields non-empty text, in the order
\* for/id label, wrapping label, ARIA label reference, preceding siblings,
\* placeholder or ARIA label attribute, ancestor heading; a control with
\* both an ARIA label and a placeholder is not resolved through its
\* placeholder.
C27_HighestPriorityLabel ==
  \A i \in 1..Len(scan.outs) :
    scan.outs[i].epoch = scan.epoch =>
      \A n \in VisibleControls(scan.doc) :
        \E k \in 1..Len(scan.outs[i].list) :
          scan.outs[i].list[k].label_text = PriorityLabel(scan.doc, n)

\* C28: no descriptor extractFields returns has an empty label_text:
\* getLabelForElement gives non-empty label text or "(no-label)".
C28_LabelNeverEmpty ==
  \A i \in 1..Len(scan.outs) :
    \A k \in 1..Len(scan.outs[i].list) :
      scan.outs[i].list[k].label_text # <<>>

\* The identity of a descriptor.
Tuple(f) == <<f.id, f.name, f.label_text>>

\* C29: the list extractFields returns has no two descriptors with the same
\* (id, name, label_text) tuple, holds for each tuple the descriptor of the
\* first visible control that has it, lists them in document order, and has
\* a descriptor for the tuple of every visible input, textarea and select.
C29_DedupedInDocumentOrder ==
  \A i \in 1..Len(scan.outs) :
    scan.outs[i].epoch = scan.epoch =>
      LET list == scan.outs[i].list
          all == Fields(scan.doc, 1)
          pos == [k \in 1..Len(list) |->
                    First({x \in 1..Len(all) : Tuple(all[x]) = Tuple(list[k])})]
      IN /\ \A k, l \in 1..Len(list) : k < l => Tuple(list[k]) # Tuple(list[l])
         /\ \A k \in 1..Len(list) : pos[k] # 0 /\ list[k] = all[pos[k]]
         /\ \A k, l \in 1..Len(list) : k < l => pos[k] < pos[l]
         /\ \A x \in 1..Len(all) :
              \E k \in 1..Len(list) : Tuple(list[k]) = Tuple(all[x])

IdHit(doc, f) ==
  IF f.id = <<>> THEN 0 ELSE First({x \in 1..Len(doc) : doc[x].id = f.id})

NameHit(doc, f) ==
  IF f.name = <<>> THEN 0 ELSE First({x \in 1..Len(doc) : doc[x].name = f.name})

PlaceholderHit(doc, f) ==
  IF f.placeholder = <<>> THEN 0
  ELSE First({x \in 1..Len(doc) :
                /\ IsControl(doc[x])
                /\ includes(toLowerCase(doc[x].placeholder), toLowerCase(f.placeholder))})

\* The control of label l: the element its for attribute names, else the
\* first control inside it.
LabelTarget(doc, l) ==
  LET byFor == IF doc[l].for = <<>> THEN 0
               ELSE First({x \in 1..Len(doc) : doc[x].id = doc[l].for})
  IN IF byFor # 0 THEN byFor
     ELSE First({x \in 1..Len(doc) : IsControl(doc[x]) /\ IsInside(doc, x, l)})

LabelHit(doc, f) ==
  LET l == First({x \in 1..Len(doc) :
                    /\ doc[x].tag = "label"
                    /\ includes(toLowerCase(innerText(doc, x)), toLowerCase(f.label_text))
                    /\ LabelTarget(doc, x) # 0})
  IN IF l = 0 THEN 0 ELSE LabelTarget(doc, l)

\* How many of the first 4 tokens of the label of f are found in the id,
\* name, placeholder or aria-label of element x.
TokenCount(doc, x, f) ==
  LET words == split(toLowerCase(f.label_text))
  IN Cardinality({k \in 1..Len(words) :
       /\ k <= 4
       /\ words[k] # <<>>
       /\ \E part \in {doc[x].id, doc[x].name, doc[x].placeholder, doc[x].aria} :
             includes(toLowerCase(part), words[k])})

\* The controls with a layout box.
Candidates(doc) == {x \in 1..Len(doc) : IsControl(doc[x]) /\ doc[x].offsetParent}

RankHit(doc, f) ==
  LET winners == {x \in Candidates(doc) :
                    /\ TokenCount(doc, x, f) > 0
                    /\ \A y \in Candidates(doc) :
                          /\ TokenCount(doc, y, f) <= TokenCount(doc, x, f)
                          /\ y < x => TokenCount(doc, y, f) < TokenCount(doc, x, f)}
  IN IF winners = {} THEN 0 ELSE CHOOSE x \in winners : TRUE

Origin(doc, f) ==
  First({n \in 1..Len(doc) :
           IsControl(doc[n]) /\ IsVisible(doc[n]) /\ Descriptor(doc, n) = f})

\* C34: for a descriptor extractFields returned, on a document that has not
\* changed since, findElementForField returns the control the descriptor
\* was extracted from.
C34_ResolvesToOwnControl ==
  \A i \in 1..Len(scan.found) :
    scan.found[i].el = Origin(scan.doc, scan.found[i].field)

\* C32: when the main pass has filled at least one field, the end of the call
\* (the place of the email/phone fallback pass) writes no control, selects
\* no file and clicks nothing; so a write from the resume's raw text happens
\* only after a main pass that filled nothing.
C32_FallbackOnlyAfterEmptyMainPass ==
  [][FillReturn /\ fill.filled # {}
       => /\ fill'.values = fill.values
          /\ fill'.files = fill.files
          /\ fill'.clicks = fill.clicks]_vars

\* A call has returned true after a main pass that filled a field and left
\* the control of a field labelled with "email" empty, with a resume whose
\* raw text holds an address: the fallback pass had something to write.
C32_Witness ==
  /\ fill.pc = "done"
  /\ fill.ret = "true"
  /\ fill.filled # {}
  /\ fill.parsed_resume.given
  /\ EmailMatch(fill.parsed_resume.raw_text) # <<>>
  /\ \E k \in 1..Len(fill.fields) :
       /\ k \notin fill.filled
       /\ includes(toLowerCase(fill.fields[k].label_text), <<"e", "m", "a", "i", "l">>)
       /\ getElementById(Document, fill.fields[k].id) # 0
       /\ fill.values[getElementById(Document, fill.fields[k].id)] = <<>>

\* C33: when extractFields finds no field, the AUTOFILL handler has replied
\* once, with its no-fields error; no BG_GENERATE_GISTS has reached the
\* background, so no remote call was started; no control has a value, a file
\* or a click from it; extractFields was called once; and nothing follows.
C33_NoFieldsRepliesAndStops ==
  /\ [](runs["AUTOFILL"].pc # "idle" /\ scan.outs[1].list = <<>>
          => /\ runs["AUTOFILL"] = sendResponse(Started("sync"), "no_fields")
             /\ runs["BG_GENERATE_GISTS"] = IdleRun
             /\ fill.pc = "idle"
             /\ \A el \in 1..Len(Document) :
                   fill.values[el] = <<>> /\ fill.clicks[el] = 0 /\ el \notin fill.files
             /\ Len(scan.outs) = 1)
  /\ [][~(runs["AUTOFILL"].pc # "idle" /\ scan.outs[1].list = <<>>)]_vars

\* The handler has replied on the page whose form is not displayed, for a
\* message with a resume whose raw text holds an address.
C33_Witness ==
  /\ scan.doc = HiddenDocument
  /\ runs["AUTOFILL"].path = "no_fields"
  /\ runs["AUTOFILL"].replies = 1
  /\ EmailMatch(fill.parsed_resume.raw_text) # <<>>

\* C35: the popup never has more than one polling interval running and never
\* more than one request that it polls or whose acknowledgement it awaits.
C35_OneRequestOneTimer ==
  /\ Cardinality(strayTimers) + (IF pollingInterval # 0 THEN 1 ELSE 0) <= 1
  /\ Cardinality(submitReplies \cup ({currentRequestId} \ {0})) <= 1

C37_OtherPushChangesNothing ==
  [][\A p \in pushes :
       PushDeliver(p) /\ p.rid # currentRequestId
         => UNCHANGED <<currentRequestId, pollingInterval, pollingStartTime,
                        strayTimers, ui, shown, results, store, other>>]_vars

\* A push with a result for a request is on its way to an open popup that
\* has cancelled this request and polls nothing.
C37_Witness ==
  /\ popupOpen
  /\ currentRequestId = 0
  /\ pollingInterval = 0
  /\ \E p \in pushes : p.rid \in popupCancelled /\ p.result.ok

\* C38: when the activation check of an open popup has ended, storage holds
\* no processing record that is 2 minutes old or older, and the popup polls
\* no such record.
C38_ExpiredRecordRemovedOnActivation ==
  (popupOpen /\ act.pc = "done")
    => \A id \in ReqIds :
         ~(/\ store[id].status = "processing"
           /\ now - store[id].startTime >= POPUP_REQUEST_TIMEOUT)

\* C39: when setValue has selected an option of a select for a non-empty
\* answer, the option whose value the control took has a display text that
\* is not empty.
C39_NeverSelectsBlankOption ==
  (sel.pc = "done" /\ sel.val # <<>> /\ sel.changes = 1) =>
    \A x \in 1..Len(sel.el.options) :
      sel.el.options[x].value = sel.value => sel.el.options[x].text # <<>>

====
